---- MODULE Spec2Model ----
(***************************************************************************)
(* Organizational-effectiveness report pipeline of streamlit_app.py:       *)
(*   RawTable -> group_data_by_unit -> build_multiple_reports              *)
(*            -> build_report (score normalizer, item / category           *)
(*               aggregation, grades).                                     *)
(*                                                                         *)
(* Numbers are exact fixed-point integers: a parsed cell is counted in     *)
(* thousandths (3.5 = 3500), a rounded score in hundredths (3.12 = 312),   *)
(* a percentage in tenths (33.3 = 333).  An unrounded mean is the exact    *)
(* fraction [num, den] in thousandths.  None is <<>>, a present value x    *)
(* is <<x>>.                                                               *)
(*                                                                         *)
(* Further parts: the free-text processor (preprocess_answer_list,         *)
(* build_structured_open_ended), a second run and the rendering of a       *)
(* report (attach_score_distribution, render_web_html), the builds of      *)
(* several units interleaved, and send_email_with_attachment.              *)
(***************************************************************************)
EXTENDS Integers, Sequences, FiniteSets, TLC

VARIABLES
    pc,             \* position of the "generate reports" run
    df,             \* RawTable: sequence of rows, each row maps column -> cell
    columns,        \* df.columns
    group_type,     \* "whole" | "by_team" (the source's Korean literals)
    group_column,   \* the grouping column asked for, <<>> when None
    index_df,       \* reference item index: sequence of ItemIndexEntry
    grouped_data,   \* dict {group_name: sub-table}, in insertion order
    warned,         \* st.error was shown by the grouper
    detected_company, \* company name detected in the upload, <<>> when None
    reports,        \* dict {group_name: report}, in insertion order
    clock,          \* the date datetime.now() returns
    ai_reply,       \* what the Gemini call of the open-ended analysis returns
    first_run,      \* the reports of the first run once a second run starts
    workers,        \* concurrent builds: group_name -> position and locals
    mail,           \* one call of send_email_with_attachment
    session,        \* st.session_state of one browser session
    db,             \* the tables of the SQLite database
    pool            \* one call of a batch PDF generator

vars == <<pc, df, columns, group_type, group_column, index_df,
          detected_company, grouped_data, warned, reports, clock, ai_reply,
          first_run, workers, mail, session, db, pool>>

----------------------------------------------------------------------------
(* Bounds *)

MaxRows == 7        \* rows of a table handed to the unit grouper
MaxItemRows == 5    \* rows of a one-item table handed to build_report
MaxReportRows == 3  \* rows of a two-item table handed to build_report
MaxIndex == 2       \* entries of a generated reference index
MaxLikertRows == 8  \* rows of a table of Likert answers only
MaxPipeRows == 6    \* rows of a table run through the whole pipeline
MaxOpenRows == 2    \* rows of a table of short free-text answers
MaxLongRows == 22   \* rows of a table of long free-text answers
MaxSessionRows == 3 \* rows of a table built twice and rendered
MaxRecipients == 2  \* addresses in to_emails
MaxRetries == 3     \* max_retries handed to send_email_with_attachment
MaxUploadRows == 2  \* rows of a table uploaded on the upload page
MaxAiRuns == 3      \* AI buttons pressed on the report page
MaxTeams == 3       \* reports handed to the batch PDF generators
MaxWorkers == 2     \* max_workers of generate_multiple_pdfs_parallel
MaxBatchSize == 3   \* batch_size of generate_multiple_pdfs_parallel
MaxAuthActions == 5 \* login and logout buttons pressed in a session
MaxLogCalls == 3    \* start calls of the logging functions
MaxDay == 2         \* days that pass in the life of the database
MaxDbRows == 2      \* rows of a table of the database

----------------------------------------------------------------------------
(* Generic helpers *)

None == <<>>
Some(x) == <<x>>

NaN == "NaN"        \* a missing cell (pandas NaN)

Range(s) == {s[i] : i \in 1..Len(s)}

SeqsUpTo(S, n) == UNION {[1..k -> S] : k \in 0..n}

----------------------------------------------------------------------------
(* Unit Grouper: group_data_by_unit *)

MIN_GROUP_SIZE == 3
\* the group name "whole organization" (the Korean literal of the source)
WHOLE_ORG == "whole organization"

\* Values of the grouping column.  "i1" is the integer 1, "s1" the text
\* "1"; "A" is text.
UnitVals == {"i1", "s1", "A"}

\* str(team_name)
StrOf(u) == CASE u = "i1" -> "1"
              [] u = "s1" -> "1"
              [] OTHER    -> u

\* rank of a key in the sorted key order of df.groupby (numbers before text)
SortRank(u) == CASE u = "i1" -> 1
                 [] u = "s1" -> 2
                 [] u = "A"  -> 3
                 [] OTHER    -> 4

\* df.copy(): every row label of the table, in order
AllRows(d) == [i \in 1..Len(d) |-> i]

\* the row labels of the group of key u, in table order
GroupRows(d, u) == SelectSeq(AllRows(d), LAMBDA i : d[i].DEPT = u)

\* the keys of a set in groupby order
RECURSIVE SortKeys(_)
SortKeys(S) ==
    IF S = {} THEN <<>>
    ELSE LET m == CHOOSE x \in S : \A y \in S : SortRank(x) <= SortRank(y)
         IN  <<m>> \o SortKeys(S \ {m})

\* groupby that keeps the rows with a missing key as a group of their own
GroupKeys_keepna(d) == SortKeys({d[i].DEPT : i \in 1..Len(d)})

\* df.groupby(group_column): rows with a missing key belong to no group
GroupKeys(d) == SortKeys({d[i].DEPT : i \in 1..Len(d)} \ {NaN})

\* a minimum group size of 2
TooSmall_lt2(rows) == Len(rows) < 2

\* len(team_df) < 3
TooSmall(rows) == Len(rows) < MIN_GROUP_SIZE

\* grouped_data[name] = rows
DictSet(dict, name, val) ==
    IF \E i \in 1..Len(dict) : dict[i].name = name
    THEN [i \in 1..Len(dict) |->
             IF dict[i].name = name THEN [name |-> name, val |-> val]
             ELSE dict[i]]
    ELSE Append(dict, [name |-> name, val |-> val])

\* one pass of the loop: a group that is too small is skipped ("continue")
AddGroup(acc, name, rows) == IF TooSmall(rows) THEN acc ELSE DictSet(acc, name, rows)

\* for team_name, team_df in df.groupby(group_column): ...
RECURSIVE GroupLoop(_, _, _)
GroupLoop(d, keys, acc) ==
    IF keys = <<>> THEN acc
    ELSE GroupLoop(d, Tail(keys), AddGroup(acc, StrOf(Head(keys)), GroupRows(d, Head(keys))))

WholeOrgDict(d) == <<[name |-> WHOLE_ORG, val |-> AllRows(d)]>>

\* if not grouped_data: fall back to the whole organization
OrFallback(d, g) ==
    IF g = <<>>
    THEN [dict |-> WholeOrgDict(d), warned |-> TRUE]
    ELSE [dict |-> g, warned |-> FALSE]

\* group_data_by_unit that returns the empty dict when no group is kept
group_data_by_unit_nofallback(d, cols, gtype, gcol) ==
    IF gtype = "whole"
    THEN [dict |-> WholeOrgDict(d), warned |-> FALSE]
    ELSE IF gtype = "by_team"
    THEN IF gcol = None \/ gcol[1] \notin cols
         THEN [dict |-> WholeOrgDict(d), warned |-> TRUE]
         ELSE [dict |-> GroupLoop(d, GroupKeys(d), <<>>), warned |-> FALSE]
    ELSE [dict |-> WholeOrgDict(d), warned |-> FALSE]

\* result of group_data_by_unit: the dict and whether st.error was called
group_data_by_unit(d, cols, gtype, gcol) ==
    IF gtype = "whole"
    THEN [dict |-> WholeOrgDict(d), warned |-> FALSE]
    ELSE IF gtype = "by_team"
    THEN IF gcol = None \/ gcol[1] \notin cols
         THEN [dict |-> WholeOrgDict(d), warned |-> TRUE]
         ELSE OrFallback(d, GroupLoop(d, GroupKeys(d), <<>>))
    ELSE [dict |-> WholeOrgDict(d), warned |-> FALSE]

----------------------------------------------------------------------------
(* Score Normalizer: build_report.to_num *)

\* Cell texts.  The Likert labels are the source's Korean labels, written
\* here by their meaning; " agree " carries surrounding whitespace.
LikertOne   == {"strongly disagree", "not at all", "stronglydisagree"}
LikertTwo   == {"disagree", "dis agree"}
LikertThree == {"neutral", "so-so"}
LikertFour  == {"agree"}
LikertFive  == {"strongly agree", "stronglyagree", "strongly agree."}

LIKERT_MAP ==
    [l \in LikertOne \cup LikertTwo \cup LikertThree \cup LikertFour \cup LikertFive |->
        CASE l \in LikertOne   -> 1000
          [] l \in LikertTwo   -> 2000
          [] l \in LikertThree -> 3000
          [] l \in LikertFour  -> 4000
          [] OTHER             -> 5000]

\* series.astype(str): a missing cell becomes the text "nan"
AsStr(c) == IF c = NaN THEN "nan" ELSE c

\* .str.strip()
Strip(c) == CASE c = " agree " -> "agree"
              [] OTHER         -> c

\* pd.to_numeric(text, errors="coerce"), in thousandths; None when the text
\* is not a number
ToNumeric(c) == CASE c = "0"   -> Some(0)
                  [] c = "1"   -> Some(1000)
                  [] c = "2"   -> Some(2000)
                  [] c = "3"   -> Some(3000)
                  [] c = "3.5" -> Some(3500)
                  [] c = "4"   -> Some(4000)
                  [] c = "5"   -> Some(5000)
                  [] c = "7"   -> Some(7000)
                  [] OTHER     -> None

\* .replace(LIKERT_MAP) followed by pd.to_numeric, for one stripped text
ReplaceAndParse(t) ==
    IF t \in DOMAIN LIKERT_MAP THEN Some(LIKERT_MAP[t]) ELSE ToNumeric(t)

\* to_num for one cell
to_num(c) == ReplaceAndParse(Strip(AsStr(c)))

----------------------------------------------------------------------------
(* Arithmetic of build_report *)

\* round(n / d) to the nearest integer, ties to even (Python round), n >= 0
RoundHalfEven(n, d) ==
    LET q == n \div d
        r == n % d
    IN  IF 2 * r < d THEN q
        ELSE IF 2 * r > d THEN q + 1
        ELSE IF q % 2 = 0 THEN q ELSE q + 1

\* sum of a sequence of thousandths
RECURSIVE SumSeq(_)
SumSeq(s) == IF s = <<>> THEN 0 ELSE Head(s) + SumSeq(Tail(s))

\* a + b of exact fractions [num, den]
AddFrac(a, b) == [num |-> a.num * b.den + b.num * a.den, den |-> a.den * b.den]

\* sum(scores) of exact fractions
RECURSIVE SumFrac(_)
SumFrac(s) ==
    IF s = <<>> THEN [num |-> 0, den |-> 1] ELSE AddFrac(Head(s), SumFrac(Tail(s)))

\* ZeroDivisionError of an evaluated "x / n"
DivRaises(n) == n = 0

\* round(total / n, 2) of a fraction of thousandths, in hundredths
RoundAvg(total, n) == RoundHalfEven(total.num, 10 * total.den * n)

\* the average without the "if scores" guard
AvgOfScores_noguard(scores) ==
    [raised |-> DivRaises(Len(scores)),
     value  |-> IF Len(scores) = 0 THEN None
                ELSE Some(RoundAvg(SumFrac(scores), Len(scores)))]

\* round(sum(scores) / len(scores), 2) if scores else None, in hundredths;
\* raised tells whether evaluating it raises
AvgOfScores(scores) ==
    IF scores # <<>>
    THEN [raised |-> DivRaises(Len(scores)),
          value  |-> Some(RoundAvg(SumFrac(scores), Len(scores)))]
    ELSE [raised |-> FALSE, value |-> None]

\* round(x, 2) of a fraction of thousandths, in hundredths
Round2(f) == RoundHalfEven(f.num, 10 * f.den)

\* a benchmark offset of 0.5
Benchmark_half(avg) ==
    LET shifted == avg.num - 500 * avg.den
        upper   == 5000 * avg.den
        capped  == IF shifted > upper THEN upper ELSE shifted
    IN  [num |-> IF capped < 0 THEN 0 ELSE capped, den |-> avg.den]

\* max(0.0, min(5.0, item_avg - 0.25))
Benchmark(avg) ==
    LET shifted == avg.num - 250 * avg.den
        upper   == 5000 * avg.den
        capped  == IF shifted > upper THEN upper ELSE shifted
    IN  [num |-> IF capped < 0 THEN 0 ELSE capped, den |-> avg.den]

----------------------------------------------------------------------------
(* Item Aggregator: the item loop of build_report *)

\* num.dropna(): the parsed, non-missing values of a column over the rows of
\* a sub-table
RECURSIVE ValidValues(_, _, _)
ValidValues(d, rows, col) ==
    IF rows = <<>> THEN <<>>
    ELSE to_num(d[Head(rows)][col]) \o ValidValues(d, Tail(rows), col)

\* float(valid.mean()), as an exact fraction
Mean(valid) == [num |-> SumSeq(valid), den |-> Len(valid)]

\* int((valid == v).sum())
CountEq(valid, v) == Cardinality({i \in 1..Len(valid) : valid[i] = 1000 * v})

\* round(cnt / total * 100, 1), in tenths of a percent
DistPct(valid, v) == RoundHalfEven(1000 * CountEq(valid, v), Len(valid))

\* dist_pcts of a scored item
Dist(valid) == [v \in 1..5 |-> DistPct(valid, v)]

\* dist_pcts = {1: 0.0, ..., 5: 0.0}
ZeroDist == [v \in 1..5 |-> 0]

\* neg_pct, mid_pct, pos_pct
DistAgg(dist) == [neg_pct |-> dist[1] + dist[2],
                  mid_pct |-> dist[3],
                  pos_pct |-> dist[4] + dist[5]]

\* the dict appended to sub_items
ItemDict(col_name, sub, average, benchmark, dist) ==
    [header      |-> col_name,
     subcategory |-> sub,
     average     |-> average,
     benchmark   |-> benchmark,
     responses   |-> dist,
     dist_agg    |-> DistAgg(dist)]

\* the item when the column has a valid value ("if not valid.empty")
ScoredItem(col_name, sub, item_avg, dist) ==
    [item  |-> ItemDict(col_name, sub, Some(Round2(item_avg)),
                        Some(Round2(Benchmark(item_avg))), dist),
     score |-> Some(item_avg),
     raised |-> FALSE]

\* the item left at its initial values: item_avg = None, item_bm = 0.0
UnscoredItem(col_name, sub, raised) ==
    [item  |-> ItemDict(col_name, sub, None, Some(0), ZeroDist),
     score |-> None,
     raised |-> raised]

\* valid = num.dropna(); if not valid.empty: ...
ItemOfValid(col_name, sub, valid) ==
    IF valid # <<>>
    THEN ScoredItem(col_name, sub, Mean(valid), Dist(valid))
    ELSE UnscoredItem(col_name, sub, FALSE)

\* the header test without the membership in df.columns
HasColumn_nocheck(cols, col_name) == col_name # ""

\* if col_name and col_name in df.columns
HasColumn(cols, col_name) == col_name # "" /\ col_name \in cols

\* KeyError of df[col_name]
KeyRaises(cols, col_name) == col_name \notin cols

\* one pass of "for _, row in sub_qdf.iterrows()": the item dict, the
\* unrounded item_avg appended to sub_scores / all_scores (None if none),
\* and whether the pass raises
ItemScore(d, rows, cols, entry) ==
    IF HasColumn(cols, entry.header)
    THEN IF KeyRaises(cols, entry.header)
         THEN UnscoredItem(entry.header, entry.sub, TRUE)
         ELSE ItemOfValid(entry.header, entry.sub, ValidValues(d, rows, entry.header))
    ELSE UnscoredItem(entry.header, entry.sub, FALSE)

----------------------------------------------------------------------------
(* Open-Ended Processor: preprocess_answer_list, build_structured_open_ended *)

MIN_ANSWER_LEN == 10    \* len(cleaned) < 10: continue
MAX_ANSWERS == 20       \* sorted(...)[:20]
REPRESENTATIVE == 3     \* cleaned_answers[:3]

\* Free-text answers.  "[eml]" stands for the five-character tag the source
\* writes in place of an e-mail address.
ShortAnswers == {"ok", "        ok", "Good teamwork", "good  teamwork ", "see a@b.co"}

\* 22 answers that strip, lower-casing and masking leave unchanged
LongAnswers ==
    <<"feedback a",
      "feedback aa",
      "feedback aaa",
      "feedback b",
      "feedback aaaa",
      "feedback aaaaa",
      "feedback aaaaaa",
      "feedback aaaaaaa",
      "feedback aaaaaaaa",
      "feedback aaaaaaaaa",
      "feedback aaaaaaaaaa",
      "feedback aaaaaaaaaaa",
      "feedback aaaaaaaaaaaa",
      "feedback aaaaaaaaaaaaa",
      "feedback aaaaaaaaaaaaaa",
      "feedback bb",
      "feedback aaaaaaaaaaaaaaa",
      "feedback aaaaaaaaaaaaaaaa",
      "feedback aaaaaaaaaaaaaaaaa",
      "feedback aaaaaaaaaaaaaaaaaa",
      "feedback aaaaaaaaaaaaaaaaaaa",
      "feedback aaaaaaaaaaaaaaaaaaaa">>

\* answer.strip()
StripAnswer(a) == CASE a = "        ok"      -> "ok"
                    [] a = "good  teamwork " -> "good  teamwork"
                    [] OTHER                 -> a

\* ' '.join(text.lower().split())
Normalize(a) == CASE a = "Good teamwork"  -> "good teamwork"
                  [] a = "good  teamwork" -> "good teamwork"
                  [] OTHER                -> a

\* mask_sensitive_content: an e-mail address becomes the tag
mask_sensitive_content(a) == CASE a = "see a@b.co" -> "see [eml]"
                               [] OTHER            -> a

\* insertion of one answer into a list sorted by length, longest first,
\* behind the answers of the same length (sorted is stable)
RECURSIVE InsertByLen(_, _)
InsertByLen(a, sorted) ==
    IF sorted = <<>> THEN <<a>>
    ELSE IF Len(Head(sorted)) >= Len(a)
         THEN <<Head(sorted)>> \o InsertByLen(a, Tail(sorted))
         ELSE <<a>> \o sorted

\* sorted(cleaned_answers, key=len, reverse=True)
RECURSIVE SortByLen(_, _)
SortByLen(answers, sorted) ==
    IF answers = <<>> THEN sorted
    ELSE SortByLen(Tail(answers), InsertByLen(Head(answers), sorted))

\* a cap that keeps the first 20 answers in the order they were given
Cap_unsorted(answers) ==
    IF Len(answers) > MAX_ANSWERS THEN SubSeq(answers, 1, MAX_ANSWERS) ELSE answers

\* if len(cleaned_answers) > 20: the 20 longest, longest first
Cap(answers) ==
    IF Len(answers) > MAX_ANSWERS
    THEN SubSeq(SortByLen(answers, <<>>), 1, MAX_ANSWERS)
    ELSE answers

\* a length filter that looks at the answer before strip()
TooShort_raw(answer, cleaned) == Len(answer) < MIN_ANSWER_LEN

\* if len(cleaned) < 10: continue
TooShort(answer, cleaned) == Len(cleaned) < MIN_ANSWER_LEN

\* the cleaning loop: "for answer in raw_answers"
RECURSIVE CleanLoop(_, _, _)
RECURSIVE DedupStep(_, _, _, _, _)
DedupStep(cleaned, normalized, rest, seen, used) ==
    IF normalized \in seen \/ normalized \in used
    THEN CleanLoop(rest, seen, used)
    ELSE <<mask_sensitive_content(cleaned)>> \o CleanLoop(rest, seen \cup {normalized}, used)

\* one pass of the cleaning loop for an answer and its stripped text
CleanStep(answer, cleaned, rest, seen, used) ==
    IF answer = "" \/ TooShort(answer, cleaned)
    THEN CleanLoop(rest, seen, used)
    ELSE DedupStep(cleaned, Normalize(cleaned), rest, seen, used)

CleanLoop(raw, seen, used) ==
    IF raw = <<>> THEN <<>>
    ELSE CleanStep(Head(raw), StripAnswer(Head(raw)), Tail(raw), seen, used)

\* the normalized first three answers, added to global_used_sentences
Representatives(answers) ==
    {Normalize(answers[i]) : i \in 1..(IF Len(answers) < REPRESENTATIVE
                                       THEN Len(answers) ELSE REPRESENTATIVE)}

\* what preprocess_answer_list returns and leaves in global_used_sentences
Preprocessed(answers, used) ==
    [answers |-> answers, used |-> used \cup Representatives(answers)]

\* preprocess_answer_list(raw_answers, global_used_sentences)
preprocess_answer_list(raw, used) ==
    IF raw = <<>> THEN [answers |-> <<>>, used |-> used]
    ELSE Preprocessed(Cap(CleanLoop(raw, {}, used)), used)

\* df[header_name].dropna().astype(str).tolist()
RECURSIVE RawAnswers(_, _, _)
RawAnswers(d, rows, header) ==
    IF rows = <<>> THEN <<>>
    ELSE (IF d[Head(rows)][header] = NaN THEN <<>> ELSE <<d[Head(rows)][header]>>)
         \o RawAnswers(d, Tail(rows), header)

\* ref_df[ref_df[big] == subjective]
SubjectiveItems(idx) == SelectSeq(idx, LAMBDA e : e.big = "subjective")

\* structured_data.append(...) for one question
RECURSIVE OpenLoop(_, _, _, _, _)
ConsBlock(d, rows, cols, item, p, rest) ==
    <<[header |-> item.header, category |-> item.sub, answers |-> p.answers]>>
    \o OpenLoop(d, rows, cols, rest, p.used)

\* one question whose column the table has: "if raw_answers"
OpenStep(d, rows, cols, item, raw, rest, used) ==
    IF raw = <<>> THEN OpenLoop(d, rows, cols, rest, used)
    ELSE ConsBlock(d, rows, cols, item, preprocess_answer_list(raw, used), rest)

\* "for _, item in subjective_items.iterrows()"
OpenLoop(d, rows, cols, items, used) ==
    IF items = <<>> THEN <<>>
    ELSE IF Head(items).header \in cols
    THEN OpenStep(d, rows, cols, Head(items), RawAnswers(d, rows, Head(items).header),
                  Tail(items), used)
    ELSE OpenLoop(d, rows, cols, Tail(items), used)

\* the number of answers handed to the analysis
RECURSIVE TotalResponses(_)
TotalResponses(blocks) ==
    IF blocks = <<>> THEN 0 ELSE Len(Head(blocks).answers) + TotalResponses(Tail(blocks))

\* _generate_fallback_analysis(total_responses, org_name)
FallbackAnalysis(total) == [kind |-> "fallback", text |-> "", total |-> total]

\* generate_subjective_comprehensive_analysis: with fewer than 3 answers, or
\* when the Gemini call gives no usable reply, the fixed text; else the reply
ComprehensiveAnalysis(total) ==
    IF total < 3 \/ ai_reply = "no reply" THEN FallbackAnalysis(total)
    ELSE [kind |-> "ai", text |-> ai_reply, total |-> total]

\* the result dict of build_structured_open_ended
OpenEndedResult(blocks) ==
    [basic_responses |-> blocks,
     comprehensive_analysis |->
         IF blocks # <<>> THEN Some(ComprehensiveAnalysis(TotalResponses(blocks))) ELSE None]

\* build_structured_open_ended(df, is_company_level)
build_structured_open_ended(d, rows, cols, idx) ==
    OpenEndedResult(OpenLoop(d, rows, cols, SubjectiveItems(idx), {}))

----------------------------------------------------------------------------
(* Category Aggregator and Report Assembler: build_report *)

IPO == <<"Input", "Process", "Output">>

\* idx["category_clean"].str.contains(big, case=False) for the category
\* labels of the reference index
ContainsNoCase(label, big) ==
    CASE label = "Input"        -> big = "Input"
      [] label = "process"      -> big = "Process"
      [] label = "Output"       -> big = "Output"
      [] label = "Input/Output" -> big \in {"Input", "Output"}
      [] OTHER                  -> FALSE

\* qdf[sub].unique(): the distinct sub-category labels in first-seen order
RECURSIVE UniqueSubs(_, _)
UniqueSubs(qdf, seen) ==
    IF qdf = <<>> THEN <<>>
    ELSE IF Head(qdf).sub \in seen THEN UniqueSubs(Tail(qdf), seen)
         ELSE <<Head(qdf).sub>> \o UniqueSubs(Tail(qdf), seen \cup {Head(qdf).sub})

\* sub_items.append(...), sub_scores.append(item_avg)
ConsItem(one, rest) ==
    [items  |-> <<one.item>> \o rest.items,
     scores |-> one.score \o rest.scores,
     raised |-> one.raised \/ rest.raised]

\* the item loop over the index rows of one sub-category
RECURSIVE ItemLoop(_, _, _, _)
ItemLoop(d, rows, cols, sub_qdf) ==
    IF sub_qdf = <<>> THEN [items |-> <<>>, scores |-> <<>>, raised |-> FALSE]
    ELSE ConsItem(ItemScore(d, rows, cols, Head(sub_qdf)),
                  ItemLoop(d, rows, cols, Tail(sub_qdf)))

\* pd.isna(sub_category): continue
SkipSub(sub) == sub = NaN

\* subcategories.append(...); all_scores grows by the sub-category's scores
SubEntry(name, it, sub_avg, rest) ==
    [subcategories |-> <<[name       |-> name,
                          average    |-> sub_avg.value,
                          items      |-> it.items,
                          item_count |-> Len(it.items)]>> \o rest.subcategories,
     all_scores |-> it.scores \o rest.all_scores,
     raised     |-> it.raised \/ sub_avg.raised \/ rest.raised]

\* sub_avg of the items of one sub-category
ConsSub(name, it, rest) == SubEntry(name, it, AvgOfScores(it.scores), rest)

\* "for sub_category in qdf[sub].unique()" for one top-level category
RECURSIVE SubLoop(_, _, _, _, _)
SubLoop(d, rows, cols, qdf, subs) ==
    IF subs = <<>> THEN [subcategories |-> <<>>, all_scores |-> <<>>, raised |-> FALSE]
    ELSE IF SkipSub(Head(subs)) THEN SubLoop(d, rows, cols, qdf, Tail(subs))
    ELSE ConsSub(Head(subs),
                 ItemLoop(d, rows, cols, SelectSeq(qdf, LAMBDA e : e.sub = Head(subs))),
                 SubLoop(d, rows, cols, qdf, Tail(subs)))

\* items flattened across the sub-categories
RECURSIVE FlatItems(_)
FlatItems(subcats) ==
    IF subcats = <<>> THEN <<>> ELSE Head(subcats).items \o FlatItems(Tail(subcats))

\* categories.append(...)
CategoryEntry(big, sl, cat_avg, rest) ==
    [categories |-> <<[title         |-> big,
                       average       |-> cat_avg.value,
                       subcategories |-> sl.subcategories,
                       items         |-> FlatItems(sl.subcategories)]>> \o rest.categories,
     raised |-> sl.raised \/ cat_avg.raised \/ rest.raised]

\* cat_avg over all_scores of the category
ConsCategory(big, sl, rest) == CategoryEntry(big, sl, AvgOfScores(sl.all_scores), rest)

\* one top-level category: "if qdf.empty: continue"
CategoryStep(d, rows, cols, big, qdf, rest) ==
    IF qdf = <<>> THEN rest
    ELSE ConsCategory(big, SubLoop(d, rows, cols, qdf, UniqueSubs(qdf, {})), rest)

\* "for big in [Input, Process, Output]": categories in that order
RECURSIVE CategoryLoop(_, _, _, _, _)
CategoryLoop(d, rows, cols, idx, bigs) ==
    IF bigs = <<>> THEN [categories |-> <<>>, raised |-> FALSE]
    ELSE CategoryStep(d, rows, cols, Head(bigs),
                      SelectSeq(idx, LAMBDA e : ContainsNoCase(e.big, Head(bigs))),
                      CategoryLoop(d, rows, cols, idx, Tail(bigs)))

\* ipo_avgs.get(big)
IpoAvg(categories, big) ==
    IF \E i \in 1..Len(categories) : categories[i].title = big
    THEN categories[CHOOSE i \in 1..Len(categories) : categories[i].title = big].average
    ELSE None

\* grading with the 4.0 threshold of the report's scoring guide
_grade_guide(score) ==
    IF score = None THEN "N/A"
    ELSE IF score[1] >= 400 THEN "excellent"
    ELSE IF score[1] >= 340 THEN "good"
    ELSE IF score[1] >= 300 THEN "fair"
    ELSE "needs improvement"

\* build_report._grade; the grade texts are the source's Korean grade
\* names, written by their meaning
_grade(score) ==
    IF score = None THEN "N/A"
    ELSE IF score[1] >= 380 THEN "excellent"
    ELSE IF score[1] >= 340 THEN "good"
    ELSE IF score[1] >= 300 THEN "fair"
    ELSE "needs improvement"

\* one entry of summary_ipo_cards
IpoCard(score) == [score |-> score, grade |-> _grade(score)]

DEFAULT_ORG_NAME == "uploaded data"

\* the dict build_report returns.  The tables of this model carry none of
\* the organization / department name columns, so org_name keeps its
\* default and dept_name stays None.
ReportDict(respondents, categories, open_ended) ==
    [org_name          |-> DEFAULT_ORG_NAME,
     organization_name |-> DEFAULT_ORG_NAME,
     dept_name         |-> None,
     report_date       |-> clock,
     respondents       |-> respondents,
     summary           |-> [respondents |-> respondents,
                            score_distribution |-> "of the items",
                            ai |-> None],
     open_ended        |-> open_ended,
     ipo               |-> [b \in Range(IPO) |-> IpoAvg(categories, b)],
     ipo_cards         |-> [b \in Range(IPO) |-> IpoCard(IpoAvg(categories, b))],
     categories        |-> categories,
     is_total_organization |-> None]

\* the outcome of build_report: the dict, or raised
ReportOutcome(respondents, cl, open_ended) ==
    [raised |-> cl.raised, report |-> ReportDict(respondents, cl.categories, open_ended)]

\* build_report(df, index_df) on the sub-table of the given rows
build_report(d, rows, cols, idx) ==
    ReportOutcome(Len(rows), CategoryLoop(d, rows, cols, idx, IPO),
                  build_structured_open_ended(d, rows, cols, idx))

----------------------------------------------------------------------------
(* build_multiple_reports *)

\* the naming of one report after build_report returned
NameReport(report, group_name, company) ==
    IF group_name # WHOLE_ORG
    THEN [report EXCEPT !.organization_name = group_name,
                        !.dept_name = IF company # None THEN company ELSE @,
                        !.is_total_organization = Some(FALSE)]
    ELSE [report EXCEPT !.organization_name = IF company # None THEN company[1] ELSE @,
                        !.is_total_organization = Some(TRUE)]

\* reports[group_name] = report, or "except ...: continue" when
\* build_report raised
ConsReport(group_name, r, company, rest) ==
    IF r.raised THEN rest
    ELSE <<[name |-> group_name, val |-> NameReport(r.report, group_name, company)]>> \o rest

\* "for group_name, group_df in grouped_data.items()"
RECURSIVE build_multiple_reports(_, _, _, _, _)
build_multiple_reports(d, cols, idx, groups, company) ==
    IF groups = <<>> THEN <<>>
    ELSE ConsReport(Head(groups).name,
                    build_report(d, Head(groups).val, cols, idx),
                    company,
                    build_multiple_reports(d, cols, idx, Tail(groups), company))

----------------------------------------------------------------------------
(* Rendering: attach_score_distribution, render_web_html *)

\* column names attach_score_distribution looks for (the source also looks
\* for three Korean names)
AREA_COLUMNS == {"factor", "domain", "section"}
SCORE_COLUMNS == {"score", "value", "avg_score"}

\* the report dict after attach_score_distribution(report, df, index_df):
\* the distribution build_report made is kept unless the table has an area
\* and a score column
attach_score_distribution(report, rows, cols) ==
    IF rows = <<>> THEN report
    ELSE IF cols \cap AREA_COLUMNS = {} \/ cols \cap SCORE_COLUMNS = {} THEN report
    ELSE [report EXCEPT !.summary.score_distribution = "of the table"]

\* cleaned_ai: {} without an AI result, else the cleaned copy of it
CleanedAi(ai_result) == IF ai_result # None THEN "cleaned " \o ai_result[1] ELSE "{}"

\* the report dict after render_web_html(report, ai_result):
\* report["summary"]["ai"] = cleaned_ai
render_web_html(report, ai_result) ==
    [report EXCEPT !.summary.ai = Some(CleanedAi(ai_result))]

----------------------------------------------------------------------------
(* State machine: one "generate reports" run of main() *)

Row(u, c1, c2) == [DEPT |-> u, Q1 |-> c1, Q2 |-> c2]

\* tables handed to the unit grouper: only the grouping column varies
GroupTables == SeqsUpTo({Row(u, NaN, NaN) : u \in UnitVals \cup {NaN}}, MaxRows)

\* cells of the item column of the item-level tables
ItemCells == {NaN, "strongly agree", " agree ", "3", "3.5", "7", "no idea"}
ItemTables == SeqsUpTo({Row(NaN, c, NaN) : c \in ItemCells}, MaxItemRows)
ItemIndexes == {<<[header |-> "Q1", big |-> "Input", sub |-> "S1"],
                  [header |-> "Q9", big |-> "Input", sub |-> "S1"]>>,
                <<[header |-> "Q1", big |-> "Input/Output", sub |-> "S1"],
                  [header |-> "Q9", big |-> "process", sub |-> "S2"]>>}

\* one-item tables of well-formed Likert answers
LikertTables == SeqsUpTo({Row(NaN, c, NaN) : c \in {"3", " agree ", "strongly agree"}},
                         MaxLikertRows)

\* two-item tables and the reference indexes built over them
ReportTables == SeqsUpTo({Row(NaN, c1, c2) : c1 \in {NaN, "1", "4"}, c2 \in {"3", "5"}},
                         MaxReportRows)
ReportEntries == {[header |-> h, big |-> b, sub |-> sc] :
                     h \in {"Q1", "Q2"}, b \in {"Input", "process"}, sc \in {"S1", NaN}}
ReportIndexes == SeqsUpTo(ReportEntries, MaxIndex)

\* tables run through grouping and report building
PipeTables == SeqsUpTo({Row(u, c, NaN) : u \in {"i1", "A"}, c \in {"1", "strongly agree"}},
                       MaxPipeRows)
PipeIndex == <<[header |-> "Q1", big |-> "Input", sub |-> "S1"]>>

\* report dates (strftime("%Y.%m.%d")) and replies of the Gemini call;
\* "no reply" is a missing API key, a timeout or a blocked answer
Dates == <<"2025.01.01", "2025.01.02">>
AiReplies == {"no reply", "analysis A", "analysis B"}

\* tables with two free-text columns: short answers in any combination, and
\* runs of the long answers starting at any of four places, with one long
\* answer repeated under the second question
OpenRow(a, b) == [DEPT |-> NaN, Q1 |-> "3", Q2 |-> NaN, NO40 |-> a, NO41 |-> b]
ShortTables ==
    SeqsUpTo({OpenRow(a, b) : a \in ShortAnswers \cup {NaN},
                              b \in {NaN, "Good teamwork"}},
             MaxOpenRows)
LongAt(i) == LongAnswers[((i - 1) % Len(LongAnswers)) + 1]
LongTables ==
    {[i \in 1..n |-> OpenRow(LongAt(i + r), IF i = 1 THEN LongAt(q) ELSE NaN)] :
        n \in 0..MaxLongRows, r \in 0..3, q \in 1..Len(LongAnswers)}
OpenIndex == <<[header |-> "Q1", big |-> "Input", sub |-> "S1"],
               [header |-> "NO40", big |-> "subjective", sub |-> "O1"],
               [header |-> "NO41", big |-> "subjective", sub |-> "O2"]>>

InitCommon ==
    /\ pc = "uploaded"
    /\ clock = Dates[1]
    /\ ai_reply = "no reply"
    /\ first_run = None
    /\ workers = <<>>
    /\ mail = None
    /\ session = None /\ db = None /\ pool = None
    /\ grouped_data = <<>>
    /\ warned = FALSE
    /\ reports = <<>>

InitGroup ==
    /\ InitCommon
    /\ df \in GroupTables
    /\ columns = {"DEPT", "Q1", "Q2"}
    /\ \/ group_type = "whole" /\ group_column = None
       \/ group_type = "by_team" /\ group_column \in {None, Some("DEPT"), Some("TEAM")}
    /\ index_df = <<>>
    /\ detected_company = None

InitItem ==
    /\ InitCommon
    /\ \/ columns = {"DEPT", "Q1"} /\ df \in ItemTables
       \/ columns = {"DEPT"} /\ df \in SeqsUpTo({Row(NaN, NaN, NaN)}, MaxItemRows)
    /\ group_type = "whole" /\ group_column = None
    /\ index_df \in ItemIndexes
    /\ detected_company = None

InitLikert ==
    /\ InitCommon
    /\ df \in LikertTables
    /\ columns = {"DEPT", "Q1"}
    /\ group_type = "whole" /\ group_column = None
    /\ index_df = PipeIndex
    /\ detected_company = None

InitReport ==
    /\ InitCommon
    /\ df \in ReportTables
    /\ columns = {"DEPT", "Q1", "Q2"}
    /\ group_type = "whole" /\ group_column = None
    /\ index_df \in ReportIndexes
    /\ detected_company = None

InitPipeline ==
    /\ InitCommon
    /\ df \in PipeTables
    /\ columns \in {{"DEPT", "Q1"}, {"DEPT"}}
    /\ \/ group_type = "whole" /\ group_column = None
       \/ group_type = "by_team" /\ group_column = Some("DEPT")
    /\ index_df = PipeIndex
    /\ detected_company \in {None, Some("ACME")}

\* tables of one unit with a Likert column and a free-text column
SessionRow(c, a) == [DEPT |-> "A", Q1 |-> c, Q2 |-> NaN, NO40 |-> a, NO41 |-> NaN]
SessionTables ==
    SeqsUpTo({SessionRow(c, a) : c \in {"1", "strongly agree"},
                                 a \in {NaN, "Good teamwork", "feedback a", "feedback aa"}},
             MaxSessionRows)

InitSession ==
    /\ InitCommon
    /\ df \in SessionTables
    /\ columns \in {{"DEPT", "Q1", "NO40"}, {"DEPT", "Q1", "NO40", "score", "domain"}}
    /\ \/ group_type = "whole" /\ group_column = None
       \/ group_type = "by_team" /\ group_column = Some("DEPT")
    /\ index_df = OpenIndex
    /\ detected_company = None

InitOpenEnded ==
    /\ pc = "uploaded"
    /\ grouped_data = <<>>
    /\ warned = FALSE
    /\ reports = <<>>
    /\ clock = Dates[1]
    /\ ai_reply \in {"no reply", "analysis A"}
    /\ first_run = None
    /\ workers = <<>>
    /\ mail = None
    /\ session = None /\ db = None /\ pool = None
    /\ df \in ShortTables \cup LongTables
    /\ columns \in {{"DEPT", "Q1", "NO40", "NO41"}, {"DEPT", "Q1", "NO40"}}
    /\ group_type = "whole" /\ group_column = None
    /\ index_df = OpenIndex
    /\ detected_company = None

\* main(): grouped_data = group_data_by_unit(df, internal_report_type, group_column)
GroupDataByUnit ==
    /\ pc = "uploaded"
    /\ LET r == group_data_by_unit(df, columns, group_type, group_column)
       IN  /\ grouped_data' = r.dict
           /\ warned' = r.warned
    /\ pc' = "grouped"
    /\ UNCHANGED <<df, columns, group_type, group_column, index_df,
                   detected_company, reports, clock, ai_reply,
                   first_run, workers, mail,
                   session, db, pool>>

\* main(): reports = build_multiple_reports(grouped_data, index_df, company, ...)
BuildMultipleReports ==
    /\ pc = "grouped"
    /\ reports' = build_multiple_reports(df, columns, index_df, grouped_data, detected_company)
    /\ pc' = "reported"
    /\ UNCHANGED <<df, columns, group_type, group_column, index_df,
                   detected_company, grouped_data, warned, clock, ai_reply,
                   first_run, workers, mail,
                   session, db, pool>>

Next == GroupDataByUnit \/ BuildMultipleReports

\* the day changes between two runs
Midnight ==
    /\ pc = "reported" /\ first_run = None
    /\ clock = Dates[1]
    /\ clock' = Dates[2]
    /\ UNCHANGED <<pc, df, columns, group_type, group_column, index_df, detected_company,
                   grouped_data, warned, reports, ai_reply, first_run, workers, mail,
                   session, db, pool>>

\* the Gemini service answers the same prompt differently
GeminiChanges ==
    /\ pc = "reported" /\ first_run = None
    /\ ai_reply' \in AiReplies \ {ai_reply}
    /\ UNCHANGED <<pc, df, columns, group_type, group_column, index_df, detected_company,
                   grouped_data, warned, reports, clock, first_run, workers, mail,
                   session, db, pool>>

\* main(): the "generate reports" button is pressed again on the same upload
GenerateAgain ==
    /\ pc = "reported" /\ first_run = None
    /\ first_run' = Some(reports)
    /\ pc' = "uploaded"
    /\ UNCHANGED <<df, columns, group_type, group_column, index_df, detected_company,
                   grouped_data, warned, reports, clock, ai_reply, workers, mail,
                   session, db, pool>>

\* main(): report = reports[selected_team];
\* report = attach_score_distribution(report, selected_df, index_df);
\* html_preview = render_web_html(report, ai_result=...)
\* Both work on the dict held in reports.
RenderReport ==
    /\ pc = "reported"
    /\ \E k \in 1..Len(reports), ai_result \in {None, Some("interpretation")} :
          reports' = [reports EXCEPT ![k].val =
                         render_web_html(
                             attach_score_distribution(@, grouped_data[k].val, columns),
                             ai_result)]
    /\ pc' = "rendered"
    /\ UNCHANGED <<df, columns, group_type, group_column, index_df, detected_company,
                   grouped_data, warned, clock, ai_reply, first_run, workers, mail,
                   session, db, pool>>

NextSession ==
    \/ GroupDataByUnit \/ BuildMultipleReports
    \/ Midnight \/ GeminiChanges \/ GenerateAgain \/ RenderReport

SpecGroup == InitGroup /\ [][Next]_vars
SpecItem == InitItem /\ [][Next]_vars
SpecLikert == InitLikert /\ [][Next]_vars
SpecReport == InitReport /\ [][Next]_vars
SpecPipeline == InitPipeline /\ [][Next]_vars
SpecOpenEnded == InitOpenEnded /\ [][Next]_vars
SpecSession == InitSession /\ [][NextSession]_vars

----------------------------------------------------------------------------
(* Reports of several units built concurrently: every unit's sub-table goes
   through the steps of build_report on its own, the steps of different
   units interleaved *)

\* .astype(str).fillna("").str.strip().str.replace(r"\s+", " ")
CleanLabel(label) == CASE label = NaN -> "nan"
                       [] OTHER       -> label

\* the index with the added column of cleaned category labels
WithClean(idx) ==
    [i \in 1..Len(idx) |->
        [header |-> idx[i].header, big |-> idx[i].big, sub |-> idx[i].sub,
         big_clean |-> CleanLabel(idx[i].big)]]

\* the caller's index if the column were added to index_df itself
IndexAfterCopy_inplace(idx) == WithClean(idx)

\* idx = index_df.copy(): the caller's index after build_report took its copy
IndexAfterCopy(idx) == idx

\* tables of two units of three rows each
ConcTables ==
    {[i \in 1..(2 * MIN_GROUP_SIZE) |->
         [DEPT |-> IF i <= MIN_GROUP_SIZE THEN "A" ELSE "i1",
          Q1 |-> c[i], Q2 |-> NaN, NO40 |-> a[i], NO41 |-> NaN]] :
        c \in [1..(2 * MIN_GROUP_SIZE) -> {"1", "strongly agree"}],
        a \in [1..(2 * MIN_GROUP_SIZE) -> {NaN, "Good teamwork"}]}

InitConcurrent ==
    /\ InitCommon
    /\ df \in ConcTables
    /\ columns = {"DEPT", "Q1", "NO40"}
    /\ group_type = "by_team" /\ group_column = Some("DEPT")
    /\ index_df = OpenIndex
    /\ detected_company = None

Busy == {n \in DOMAIN workers : workers[n].pc # "done"}

\* build_report starts on the sub-table of group k: idx = index_df.copy()
\* with the cleaned labels added to the copy
StartBuild(k) ==
    /\ pc = "grouped"
    /\ grouped_data[k].name \notin DOMAIN workers
    /\ workers' = workers @@
          (grouped_data[k].name :>
              [pc |-> "indexed", rows |-> grouped_data[k].val,
               idx |-> WithClean(index_df), overlapped |-> Busy # {},
               cl |-> None, oe |-> None, out |-> None])
    /\ index_df' = IndexAfterCopy(index_df)
    /\ UNCHANGED <<pc, df, columns, group_type, group_column, detected_company,
                   grouped_data, warned, reports, clock, ai_reply, first_run, mail,
                   session, db, pool>>

\* the category loop of build_report, over the copy of the index
Aggregate(n) ==
    /\ workers[n].pc = "indexed"
    /\ workers' = [workers EXCEPT
          ![n].pc = "aggregated",
          ![n].cl = Some(CategoryLoop(df, workers[n].rows, columns, workers[n].idx, IPO))]
    /\ UNCHANGED <<pc, df, columns, group_type, group_column, index_df, detected_company,
                   grouped_data, warned, reports, clock, ai_reply, first_run, mail,
                   session, db, pool>>

\* open_ended = build_structured_open_ended(df, is_company_level), which
\* reads the reference index again
CollectOpenEnded(n) ==
    /\ workers[n].pc = "aggregated"
    /\ workers' = [workers EXCEPT
          ![n].pc = "collected",
          ![n].oe = Some(build_structured_open_ended(df, workers[n].rows, columns, index_df))]
    /\ UNCHANGED <<pc, df, columns, group_type, group_column, index_df, detected_company,
                   grouped_data, warned, reports, clock, ai_reply, first_run, mail,
                   session, db, pool>>

\* build_report returns its dict
Assemble(n) ==
    /\ workers[n].pc = "collected"
    /\ workers' = [workers EXCEPT
          ![n].pc = "done",
          ![n].out = Some(ReportOutcome(Len(workers[n].rows), workers[n].cl[1],
                                        workers[n].oe[1]))]
    /\ UNCHANGED <<pc, df, columns, group_type, group_column, index_df, detected_company,
                   grouped_data, warned, reports, clock, ai_reply, first_run, mail,
                   session, db, pool>>

NextConcurrent ==
    \/ GroupDataByUnit
    \/ \E k \in 1..Len(grouped_data) : StartBuild(k)
    \/ \E n \in DOMAIN workers : Aggregate(n) \/ CollectOpenEnded(n) \/ Assemble(n)

SpecConcurrent == InitConcurrent /\ [][NextConcurrent]_vars
Spec == SpecPipeline

----------------------------------------------------------------------------
(* Unit Grouper: properties *)

RowSet(entry) == Range(entry.val)
AllRowSet == 1..Len(df)
ReturnedRows == UNION {RowSet(grouped_data[i]) : i \in 1..Len(grouped_data)}
GroupSize(u) == Cardinality({i \in AllRowSet : df[i].DEPT = u})

\* the grouper was asked to partition by a column the table has
ByUnit == group_type = "by_team" /\ group_column # None /\ group_column[1] \in columns

\* rows of the groups that the minimum-size policy drops
DroppedGroupRows == {i \in AllRowSet : df[i].DEPT # NaN /\ GroupSize(df[i].DEPT) < MIN_GROUP_SIZE}

PairwiseDisjoint ==
    \A i, j \in 1..Len(grouped_data) :
        i # j => RowSet(grouped_data[i]) \cap RowSet(grouped_data[j]) = {}

\* keys of the groups of at least 3 rows; of several with the same name the
\* last one in key order
KeptKeys ==
    {u \in UnitVals :
        /\ GroupSize(u) >= MIN_GROUP_SIZE
        /\ ~ \E w \in UnitVals : /\ StrOf(w) = StrOf(u)
                                 /\ GroupSize(w) >= MIN_GROUP_SIZE
                                 /\ SortRank(w) > SortRank(u)}

\* C1 (as stated): the returned row sets are pairwise disjoint and their
\* union is the table's rows minus the rows of the dropped (fewer than 3
\* rows) groups.
C1_AsStated ==
    (pc = "grouped" /\ ByUnit) =>
        /\ PairwiseDisjoint
        /\ ReturnedRows = AllRowSet \ DroppedGroupRows

\* C1 (amended): the returned row sets are pairwise disjoint; when
\* partitioning by an existing column keeps at least one group, their union
\* is the rows of the groups of at least 3 rows (rows with a missing grouping
\* value are in no group, and of several groups with the same name only the
\* last is kept); otherwise the single returned sub-table holds every row.
C1_DisjointAndUnion ==
    pc = "grouped" =>
        /\ PairwiseDisjoint
        /\ IF ByUnit /\ KeptKeys # {}
           THEN ReturnedRows = {i \in AllRowSet : df[i].DEPT \in KeptKeys}
           ELSE Len(grouped_data) = 1 /\ ReturnedRows = AllRowSet

C1_Witness ==
    /\ pc = "grouped" /\ ByUnit
    /\ Len(grouped_data) = 2
    /\ ReturnedRows # AllRowSet

C3_Fallback ==
    (/\ pc = "grouped"
     /\ group_type = "by_team"
     /\ \/ ~ByUnit
        \/ \A u \in UnitVals : GroupSize(u) < MIN_GROUP_SIZE) =>
        grouped_data = <<[name |-> WHOLE_ORG, val |-> AllRows(df)]>>

C3_Witness ==
    /\ pc = "grouped" /\ ByUnit /\ warned
    /\ Len(df) >= 4
    /\ \E u \in UnitVals : GroupSize(u) = 2
    /\ Len(grouped_data) = 1 /\ grouped_data[1].name = WHOLE_ORG
    /\ Len(grouped_data[1].val) = Len(df)

\* the distinct values of the grouping column (a missing cell is no value)
DistinctUnits == {df[i].DEPT : i \in AllRowSet} \ {NaN}

\* C14 (as stated): when the grouping column holds only one distinct value,
\* the grouper returns exactly one group, the "whole organization" fallback,
\* and raises the warning.
C14_AsStated ==
    (pc = "grouped" /\ ByUnit /\ Cardinality(DistinctUnits) = 1) =>
        /\ grouped_data = <<[name |-> WHOLE_ORG, val |-> AllRows(df)]>>
        /\ warned

\* the names of the returned mapping, in its order
ReturnedNames == [i \in 1..Len(grouped_data) |-> grouped_data[i].name]

\* the table row in which a group name is first seen
FirstSeen(name) ==
    CHOOSE i \in AllRowSet :
        /\ df[i].DEPT # NaN /\ StrOf(df[i].DEPT) = name
        /\ \A j \in 1..(i - 1) : df[j].DEPT = NaN \/ StrOf(df[j].DEPT) # name

\* C15 (as stated): in by-unit mode the keys of the returned mapping appear
\* in the order in which the grouping column's distinct values are first
\* seen in the table.
C15_AsStated ==
    (pc = "grouped" /\ ByUnit /\ ~warned) =>
        \A i, j \in 1..Len(grouped_data) :
            i < j => FirstSeen(ReturnedNames[i]) < FirstSeen(ReturnedNames[j])

----------------------------------------------------------------------------
(* Report builder: properties *)

\* every ItemScore of every report built
AllItemScores ==
    UNION {Range(FlatItems(reports[i].val.categories)) : i \in 1..Len(reports)}

ItemColumns == columns \ {"DEPT"}

InScale(v) == 1000 <= v /\ v <= 5000

SumDist(item) == SumSeq([v \in 1..5 |-> item.responses[v]])

Clamp(x, lo, hi) == IF x < lo THEN lo ELSE IF x > hi THEN hi ELSE x

Abs(x) == IF x < 0 THEN -x ELSE x

\* C4 (as stated): every value the normalizer produces for a cell is null
\* or a number in [1,5], and every non-null item mean lies in [1.0, 5.0].
C4_AsStated ==
    pc = "reported" =>
        /\ \A i \in 1..Len(df) : \A c \in ItemColumns :
              to_num(df[i][c]) = None \/ InScale(to_num(df[i][c])[1])
        /\ \A item \in AllItemScores :
              item.average = None \/ (100 <= item.average[1] /\ item.average[1] <= 500)

\* C5 (as stated): for every ItemScore with a valid response the five
\* distribution percentages sum to 100.0 within 0.2.
C5_AsStated ==
    pc = "reported" =>
        \A item \in AllItemScores :
            item.average # None => Abs(SumDist(item) - 1000) <= 2

\* C6 (as stated): for every ItemScore with a non-null mean, the benchmark
\* equals clamp(mean - 0.25, 0, 5) of that ItemScore's mean.
C6_AsStated ==
    pc = "reported" =>
        \A item \in AllItemScores :
            item.average # None =>
                item.benchmark = Some(Clamp(item.average[1] - 25, 0, 500))

\* C6 (amended): for every ItemScore with a non-null mean, the benchmark
\* lies in [0, 5] and differs from clamp(mean - 0.25, 0, 5) of the reported
\* mean by at most 0.01 (both are rounded to two decimals from the
\* unrounded mean).
C6_BenchmarkWithinRounding ==
    pc = "reported" =>
        \A item \in AllItemScores :
            item.average # None =>
                /\ item.benchmark # None
                /\ 0 <= item.benchmark[1] /\ item.benchmark[1] <= 500
                /\ Abs(item.benchmark[1] - Clamp(item.average[1] - 25, 0, 500)) <= 1

C6_Witness ==
    /\ pc = "reported"
    /\ \E item \in AllItemScores :
          /\ item.average = Some(312)
          /\ item.benchmark = Some(288)

\* C7 (as stated): an item whose header is not a column of the table gives
\* an ItemScore with null mean, null benchmark and all-zero distribution.
C7_AsStated ==
    pc = "reported" =>
        \A item \in AllItemScores :
            item.header \notin columns =>
                /\ item.average = None
                /\ item.benchmark = None
                /\ item.responses = ZeroDist

\* C7 (amended): an item whose header is not a column of the table raises
\* nothing (the report of every group is built) and gives an ItemScore with
\* null mean, benchmark 0.0 and all-zero distribution.
C7_MissingColumn ==
    pc = "reported" =>
        /\ Len(reports) = Len(grouped_data)
        /\ \A item \in AllItemScores :
              item.header \notin columns =>
                  /\ item.average = None
                  /\ item.benchmark = Some(0)
                  /\ item.responses = ZeroDist
                  /\ item.dist_agg = [neg_pct |-> 0, mid_pct |-> 0, pos_pct |-> 0]

C7_Witness ==
    /\ pc = "reported"
    /\ \E item \in AllItemScores : item.header \notin columns
    /\ \E item \in AllItemScores : item.average # None

\* the sub-table (row labels) a report was built from
RowsOf(name) ==
    LET i == CHOOSE i \in 1..Len(grouped_data) : grouped_data[i].name = name
    IN  grouped_data[i].val

\* the unrounded means of every index entry of a top-level category, with
\* or without a sub-category label
RECURSIVE CategoryScores(_, _, _)
CategoryScores(rows, idx, big) ==
    IF idx = <<>> THEN <<>>
    ELSE IF ContainsNoCase(Head(idx).big, big)
         THEN ItemScore(df, rows, columns, Head(idx)).score \o CategoryScores(rows, Tail(idx), big)
         ELSE CategoryScores(rows, Tail(idx), big)

\* C8 (as stated): an index entry without a sub-category label is in no
\* sub-category group, and its item mean still counts in the average of its
\* top-level category.
C8_AsStated ==
    pc = "reported" =>
        \A i \in 1..Len(reports) :
            \A k \in 1..Len(reports[i].val.categories) :
                LET cat == reports[i].val.categories[k]
                IN  /\ \A j \in 1..Len(cat.subcategories) : cat.subcategories[j].name # NaN
                    /\ cat.average =
                         AvgOfScores(CategoryScores(RowsOf(reports[i].name), index_df, cat.title)).value

\* the grade the fixed thresholds give to an average in hundredths
GradeByThreshold(avg) ==
    CASE avg = None    -> "N/A"
      [] avg # None /\ avg[1] >= 380 -> "excellent"
      [] avg # None /\ avg[1] < 380 /\ avg[1] >= 340 -> "good"
      [] avg # None /\ avg[1] < 340 /\ avg[1] >= 300 -> "fair"
      [] OTHER -> "needs improvement"

\* the average of a report's category, None when the report has no such
\* category
CategoryAverage(report, big) ==
    LET S == {k \in 1..Len(report.categories) : report.categories[k].title = big}
    IN  IF S = {} THEN None ELSE report.categories[CHOOSE k \in S : TRUE].average

NullReport(report) ==
    /\ \A b \in Range(IPO) :
          /\ report.ipo[b] = None
          /\ report.ipo_cards[b] = [score |-> None, grade |-> "N/A"]
    /\ \A k \in 1..Len(report.categories) :
          /\ report.categories[k].average = None
          /\ \A j \in 1..Len(report.categories[k].subcategories) :
                report.categories[k].subcategories[j].average = None
          /\ \A item \in Range(report.categories[k].items) :
                /\ item.average = None
                /\ item.benchmark = Some(0)
                /\ item.responses = ZeroDist

----------------------------------------------------------------------------
(* Open-Ended Processor: properties *)

OpenHeaders == {"NO40", "NO41"}

\* the report of the whole organization carries the free-text groups
OpenBuilt == pc = "reported" /\ Len(reports) = 1

\* the answers given to a question, missing cells left out
Raw(h) == IF h \in columns THEN RawAnswers(df, AllRows(df), h) ELSE <<>>

HasBlock(h) ==
    \E k \in 1..Len(reports[1].val.open_ended.basic_responses) :
        reports[1].val.open_ended.basic_responses[k].header = h

\* the retained responses of a question
Retained(h) ==
    IF HasBlock(h)
    THEN LET blocks == reports[1].val.open_ended.basic_responses
         IN  blocks[CHOOSE k \in 1..Len(blocks) : blocks[k].header = h].answers
    ELSE <<>>

\* first occurrences, up to letter case and whitespace, among the answers of
\* at least 10 characters
LongAndFirst(R) ==
    {i \in 1..Len(R) :
        /\ Len(StripAnswer(R[i])) >= MIN_ANSWER_LEN
        /\ \A j \in 1..(i - 1) :
              Len(StripAnswer(R[j])) >= MIN_ANSWER_LEN
                  => Normalize(StripAnswer(R[j])) # Normalize(StripAnswer(R[i]))}

\* the first three retained responses of the questions before h, normalized
UsedBefore(h) ==
    IF h = "NO41" THEN Representatives(Retained("NO40")) ELSE {}

Pick(R, I) == SelectSeq([i \in 1..Len(R) |-> i], LAMBDA i : i \in I)

\* the responses the claim lets through, in order of appearance
StatedCandidates(h) ==
    [k \in 1..Len(Pick(Raw(h), LongAndFirst(Raw(h)))) |->
        StripAnswer(Raw(h)[Pick(Raw(h), LongAndFirst(Raw(h)))[k]])]

\* the responses the code lets through, in order of appearance: not equal
\* to a representative response of an earlier question, and masked
NotUsed(h) ==
    {i \in LongAndFirst(Raw(h)) : Normalize(StripAnswer(Raw(h)[i])) \notin UsedBefore(h)}
CodeCandidates(h) ==
    [k \in 1..Len(Pick(Raw(h), NotUsed(h))) |->
        mask_sensitive_content(StripAnswer(Raw(h)[Pick(Raw(h), NotUsed(h))[k]]))]

Count(seq, x) == Cardinality({i \in 1..Len(seq) : seq[i] = x})

\* S holds the candidates, or the 20 longest of them when there are more
LongestOf(S, cands) ==
    IF Len(cands) <= MAX_ANSWERS
    THEN Len(S) = Len(cands) /\ \A x \in Range(cands) : Count(S, x) = Count(cands, x)
    ELSE /\ Len(S) = MAX_ANSWERS
         /\ Range(S) \subseteq Range(cands)
         /\ \A x \in Range(cands) :
               /\ Count(S, x) <= Count(cands, x)
               /\ Count(S, x) < Count(cands, x)
                     => \A i \in 1..Len(S) : Len(S[i]) >= Len(x)

\* C16 (as stated): the retained responses of a question are exactly its
\* responses of at least 10 characters, responses that differ only in letter
\* case or whitespace kept once, limited to the 20 longest; nothing else is
\* discarded.
C16_AsStated ==
    OpenBuilt => \A h \in OpenHeaders : LongestOf(Retained(h), StatedCandidates(h))

\* C16 (amended): the retained responses of a question are its responses of
\* at least 10 characters after trimming, responses that differ only in
\* letter case or whitespace kept once, without those equal to one of the
\* first three retained responses of an earlier question, each with e-mail
\* addresses masked, limited to the 20 longest.
C16_Retained ==
    OpenBuilt => \A h \in OpenHeaders : LongestOf(Retained(h), CodeCandidates(h))

C16_Witness ==
    /\ OpenBuilt
    /\ Len(Raw("NO40")) = 2 /\ Len(Retained("NO40")) = 1
    /\ "ok" \in Range(Raw("NO40"))
    /\ Len(Raw("NO41")) = 1 /\ Len(Retained("NO41")) = 0
    /\ Len(StatedCandidates("NO41")) = 1

Descending(S) == \A i, j \in 1..Len(S) : i < j => Len(S[i]) >= Len(S[j])

\* C17 (as stated): the retained responses of every question are ordered by
\* length, longest first.
C17_AsStated ==
    OpenBuilt => \A h \in OpenHeaders : Descending(Retained(h))

\* C17 (amended): when more than 20 responses of a question pass the
\* filters, its retained responses are ordered by length, longest first;
\* otherwise they keep the order in which they were given.
C17_OrderedWhenCapped ==
    OpenBuilt =>
        \A h \in OpenHeaders :
            IF Len(CodeCandidates(h)) > MAX_ANSWERS
            THEN Descending(Retained(h))
            ELSE Retained(h) = CodeCandidates(h)

C17_Witness ==
    /\ OpenBuilt
    /\ Len(CodeCandidates("NO40")) > MAX_ANSWERS
    /\ Len(Retained("NO40")) = MAX_ANSWERS
    /\ Retained("NO40") # SubSeq(CodeCandidates("NO40"), 1, MAX_ANSWERS)
    /\ Descending(Retained("NO40"))

----------------------------------------------------------------------------
(* E-mail: send_email_with_attachment *)

\* Texts of the exceptions the SMTP calls raise.  The second stands for a
\* text that holds the Korean word for "error".
ExceptionTexts == {"(421, cannot connect)", "error 421"}

\* "<error word>" in text
SaysError(text) == CASE text = "error 421" -> TRUE
                     [] OTHER              -> FALSE

\* What the SMTP server does in one connection attempt: whether the
\* connection is made, what login does ("ok", "auth" for
\* SMTPAuthenticationError, "error" for another exception), whether
\* server.quit() raises in the handler of the authentication error, which
\* sendmail calls succeed, and whether the final server.quit() raises.
AttemptOutcomes(n) ==
    {[connect |-> FALSE, login |-> "none", handler_quit_raises |-> FALSE,
      send |-> <<>>, quit_raises |-> FALSE]}
    \cup {[connect |-> TRUE, login |-> "error", handler_quit_raises |-> FALSE,
           send |-> <<>>, quit_raises |-> FALSE]}
    \cup {[connect |-> TRUE, login |-> "auth", handler_quit_raises |-> q,
           send |-> <<>>, quit_raises |-> FALSE] : q \in BOOLEAN}
    \cup {[connect |-> TRUE, login |-> "ok", handler_quit_raises |-> FALSE,
           send |-> sd, quit_raises |-> q] : sd \in [1..n -> BOOLEAN], q \in BOOLEAN}

\* the returned dict, with what the call did to the world: the addresses
\* the server accepted a message for, in order, and the number of
\* connection attempts made
MailResult(success, kind, text, sent_to, failed_to, delivered, attempts) ==
    [success |-> success, message |-> [kind |-> kind, text |-> text],
     sent_to |-> sent_to, failed_to |-> failed_to,
     delivered |-> delivered, attempts |-> attempts, raised |-> FALSE]

\* the message holds the word "error": only the message of the outermost
\* handler has it in its fixed part; three messages quote the exception
MessageSaysError(message) ==
    \/ message.kind = "error while sending"
    \/ message.kind \in {"authentication failed", "connection failed"} /\ SaysError(message.text)

\* the addresses of to_emails whose sendmail call succeeded / failed
Accepted(to_emails, send) == SelectSeq(to_emails, LAMBDA e :
    \E i \in 1..Len(to_emails) : to_emails[i] = e /\ send[i])
Refused(to_emails, send) == SelectSeq(to_emails, LAMBDA e :
    \E i \in 1..Len(to_emails) : to_emails[i] = e /\ ~send[i])

\* after the retry loop: "if sent_to: ... else: ..."
AfterLoop(sent_to, failed_to, delivered, attempts) ==
    IF sent_to # <<>>
    THEN MailResult(TRUE, "sent", "", sent_to, Some(failed_to), delivered, attempts)
    ELSE MailResult(FALSE, "all failed", "", <<>>, Some(failed_to), delivered, attempts)

\* the retry loop "for attempt in range(max_retries)", attempt k of n
RECURSIVE RetryLoop(_, _, _, _, _, _, _, _)

\* the handlers that retry: "if attempt < max_retries - 1: continue", else
\* return the failure with an empty sent_to
RetryOrFail(to_emails, n, script, text, k, sent_to, failed_to, delivered) ==
    IF k < n
    THEN RetryLoop(to_emails, n, script, text, k + 1, sent_to, failed_to, delivered)
    ELSE MailResult(FALSE, "connection failed", text, <<>>, None, delivered, k)

\* except smtplib.SMTPAuthenticationError: server.quit(); return {...}.
\* An exception of server.quit() leaves this handler for the handler of
\* the enclosing try, which retries.
AuthFailure(to_emails, n, script, text, k, sent_to, failed_to, delivered) ==
    IF script[k].handler_quit_raises
    THEN RetryOrFail(to_emails, n, script, text, k, sent_to, failed_to, delivered)
    ELSE MailResult(FALSE, "authentication failed", text, <<>>, None, delivered, k)

\* after the loop over to_emails: server.quit(); break
QuitAndBreak(to_emails, n, script, text, k, sent_to, failed_to, delivered) ==
    IF script[k].quit_raises
    THEN RetryOrFail(to_emails, n, script, text, k, sent_to, failed_to, delivered)
    ELSE AfterLoop(sent_to, failed_to, delivered, k)

\* one attempt: connect, login, send to every address, quit
RetryLoop(to_emails, n, script, text, k, sent_to, failed_to, delivered) ==
    IF k > n THEN AfterLoop(sent_to, failed_to, delivered, n)
    ELSE IF ~script[k].connect \/ script[k].login = "error"
    THEN RetryOrFail(to_emails, n, script, text, k, sent_to, failed_to, delivered)
    ELSE IF script[k].login = "auth"
    THEN AuthFailure(to_emails, n, script, text, k, sent_to, failed_to, delivered)
    ELSE QuitAndBreak(to_emails, n, script, text, k,
                      sent_to \o Accepted(to_emails, script[k].send),
                      failed_to \o Refused(to_emails, script[k].send),
                      delivered \o Accepted(to_emails, script[k].send))

\* send_email_with_attachment(to_emails, ..., max_retries) of a call whose
\* environment gives the credentials or not, an attachment that can be
\* encoded or not, and the server's behaviour in script
send_email_with_attachment(to_emails, n, credentials, attachment, script, text) ==
    IF ~credentials
    THEN MailResult(FALSE, "no credentials", "", <<>>, None, <<>>, 0)
    ELSE IF ~attachment
    THEN MailResult(FALSE, "error while sending", text, <<>>, None, <<>>, 0)
    ELSE RetryLoop(to_emails, n, script, text, 1, <<>>, <<>>, <<>>)

\* send_gmail_with_attachment: "for attempt in range(3)", then one attempt
\* over SMTP_SSL
GMAIL_ATTEMPTS == 3

\* What one attempt of send_gmail_with_attachment meets: no connection, an
\* exception of starttls or login, an exception of send_message, an
\* exception of server.quit() after the message was sent, or none.
GmailOutcomes == {"no connection", "login fails", "send fails", "quit raises", "ok"}

\* server.send_message(msg) returned: the message is with the server
Sends(outcome) == IF outcome \in {"quit raises", "ok"} THEN 1 ELSE 0

\* what the call did: it returned or raised, the number of times the
\* recipient was sent the message, the number of connection attempts
GmailResult(raised, delivered, attempts) ==
    [raised |-> raised, delivered |-> delivered, attempts |-> attempts]

\* the last handler: smtplib.SMTP_SSL(...), login, send_message, quit,
\* return; any exception is raised again as "both failed"
SslFallback(outcome, delivered) ==
    GmailResult(outcome # "ok", delivered + Sends(outcome), GMAIL_ATTEMPTS + 1)

RECURSIVE GmailLoop(_, _, _)
\* attempt k: the try returns on success; "except Exception" continues
\* while attempt < 2 and falls back to SMTP_SSL after that
GmailLoop(script, k, delivered) ==
    IF script[k] = "ok" THEN GmailResult(FALSE, delivered + 1, k)
    ELSE IF k < GMAIL_ATTEMPTS
    THEN GmailLoop(script, k + 1, delivered + Sends(script[k]))
    ELSE SslFallback(script[GMAIL_ATTEMPTS + 1], delivered + Sends(script[k]))

send_gmail_with_attachment(script) == GmailLoop(script, 1, 0)

Recipients == <<"a@x.org", "b@x.org", "c@x.org">>

InitMail ==
    /\ pc = "mail"
    /\ df = <<>> /\ columns = {} /\ group_type = "whole" /\ group_column = None
    /\ index_df = <<>> /\ detected_company = None
    /\ grouped_data = <<>> /\ warned = FALSE /\ reports = <<>>
    /\ clock = Dates[1] /\ ai_reply = "no reply"
    /\ first_run = None /\ workers = <<>>
    /\ session = None /\ db = None /\ pool = None
    /\ mail \in {[to_emails |-> SubSeq(Recipients, 1, r), max_retries |-> n,
                 credentials |-> c[1], attachment |-> c[2], text |-> t,
                 script |-> None, result |-> None, gmail |-> None] :
                    r \in 0..MaxRecipients, n \in 0..MaxRetries,
                    c \in {<<TRUE, TRUE>>, <<FALSE, TRUE>>, <<TRUE, FALSE>>},
                    t \in ExceptionTexts}

\* one call of send_email_with_attachment against a server that behaves as
\* the script says
SendEmail ==
    /\ pc = "mail"
    /\ \E script \in [1..mail.max_retries -> AttemptOutcomes(Len(mail.to_emails))] :
          mail' = [mail EXCEPT
              !.script = Some(script),
              !.result = Some(send_email_with_attachment(
                             mail.to_emails, mail.max_retries, mail.credentials,
                             mail.attachment, script, mail.text))]
    /\ pc' = "mailed"
    /\ UNCHANGED <<df, columns, group_type, group_column, index_df, detected_company,
                   grouped_data, warned, reports, clock, ai_reply, first_run, workers,
                   session, db, pool>>

\* one call of send_gmail_with_attachment
SendGmail ==
    /\ pc = "mail"
    /\ \E script \in [1..(GMAIL_ATTEMPTS + 1) -> GmailOutcomes] :
          mail' = [mail EXCEPT !.gmail = Some(send_gmail_with_attachment(script))]
    /\ pc' = "gmailed"
    /\ UNCHANGED <<df, columns, group_type, group_column, index_df, detected_company,
                   grouped_data, warned, reports, clock, ai_reply, first_run, workers,
                   session, db, pool>>

NextMail == SendEmail \/ SendGmail

SpecMail == InitMail /\ [][NextMail]_vars

----------------------------------------------------------------------------
(* The pages of main(): upload, report, PDF, e-mail *)

\* the tables a user uploads one after the other
UploadTables ==
    UNION {[1..k -> {SessionRow(c, NaN) : c \in {"1", "strongly agree"}}] :
              k \in 1..MaxUploadRows}

\* the steps of the sidebar: sb_item("upload" | "report" | "pdf" | "email")
Steps == {"upload", "report", "pdf", "email"}

\* generate_multiple_pdfs({team_name: report})[team_name]: the bytes of
\* the PDF of one report
PdfOf(report) == [pdf_of |-> report]

\* session_state as main() initialises it; used is what the last rerun
\* handed to the user
InitUpload ==
    /\ pc = "uploaded"
    /\ clock = Dates[1] /\ ai_reply = "no reply"
    /\ first_run = None /\ workers = <<>>
    /\ mail = None /\ db = None /\ pool = None
    /\ grouped_data = <<>> /\ warned = FALSE /\ reports = <<>>
    /\ df = <<>>
    /\ columns = {"DEPT", "Q1", "NO40"}
    /\ group_type = "whole" /\ group_column = None
    /\ index_df = OpenIndex
    /\ detected_company = None
    /\ session = [active_menu |-> "upload", uploaded |-> FALSE,
                  pdf_bytes |-> None, used |-> None]

\* sb_item: the button of a step sets active_menu and reruns
SelectMenu(key) ==
    /\ session' = [session EXCEPT !.active_menu = key, !.used = None]
    /\ UNCHANGED <<pc, df, columns, group_type, group_column, index_df,
                   detected_company, grouped_data, warned, reports, clock,
                   ai_reply, first_run, workers, mail, db, pool>>

\* upload page, "if uploaded is not None" / "elif use_sample":
\* session_state["uploaded_df"] = df
UploadFile(table) ==
    /\ session.active_menu = "upload"
    /\ df' = table
    /\ session' = [session EXCEPT !.uploaded = TRUE, !.used = None]
    /\ UNCHANGED <<pc, columns, group_type, group_column, index_df,
                   detected_company, grouped_data, warned, reports, clock,
                   ai_reply, first_run, workers, mail, db, pool>>

\* upload page, "elif clear_data": session_state["uploaded_df"] = None
ClearData ==
    /\ session.active_menu = "upload"
    /\ df' = <<>>
    /\ session' = [session EXCEPT !.uploaded = FALSE, !.used = None]
    /\ UNCHANGED <<pc, columns, group_type, group_column, index_df,
                   detected_company, grouped_data, warned, reports, clock,
                   ai_reply, first_run, workers, mail, db, pool>>

\* the reports group_data_by_unit and build_multiple_reports give for the
\* table d
ReportsOf(d, groups) ==
    build_multiple_reports(d, columns, index_df, groups.dict, detected_company)

\* upload page, the "generate reports" button: grouping, building, and
\* active_menu = "report"
GenerateReports ==
    /\ session.active_menu = "upload" /\ session.uploaded
    /\ LET r == group_data_by_unit(df, columns, group_type, group_column)
       IN  /\ grouped_data' = r.dict
           /\ warned' = r.warned
           /\ reports' = ReportsOf(df, r)
    /\ pc' = "reported"
    /\ session' = [session EXCEPT !.active_menu = "report", !.used = None]
    /\ UNCHANGED <<df, columns, group_type, group_column, index_df,
                   detected_company, clock, ai_reply, first_run, workers,
                   mail, db, pool>>

\* the guards every later page starts with: "if df is None: return" and
\* "if not reports: return"
PageOpens(key) ==
    /\ session.active_menu = key
    /\ session.uploaded
    /\ reports # <<>>

\* report page: the selected report is rendered and shown
ReportPage ==
    /\ PageOpens("report")
    /\ reports' = [reports EXCEPT ![1].val =
                      render_web_html(
                          attach_score_distribution(@, grouped_data[1].val, columns),
                          None)]
    /\ session' = [session EXCEPT !.used = Some(reports[1].val)]
    /\ UNCHANGED <<pc, df, columns, group_type, group_column, index_df,
                   detected_company, grouped_data, warned, clock, ai_reply,
                   first_run, workers, mail, db, pool>>

\* PDF page of a single report, the "make PDF" button:
\* session_state["pdf_bytes"] = generate_multiple_pdfs(...)[team_name]
MakePdf ==
    /\ PageOpens("pdf")
    /\ session' = [session EXCEPT !.pdf_bytes = Some(PdfOf(reports[1].val)),
                                  !.used = Some(reports[1].val)]
    /\ UNCHANGED <<pc, df, columns, group_type, group_column, index_df,
                   detected_company, grouped_data, warned, reports, clock,
                   ai_reply, first_run, workers, mail, db, pool>>

\* PDF page, 'elif st.session_state.get("pdf_bytes")': the PDF made
\* earlier is offered for download
DownloadExistingPdf ==
    /\ PageOpens("pdf")
    /\ session.pdf_bytes # None
    /\ session' = [session EXCEPT !.used = Some(session.pdf_bytes[1].pdf_of)]
    /\ UNCHANGED <<pc, df, columns, group_type, group_column, index_df,
                   detected_company, grouped_data, warned, reports, clock,
                   ai_reply, first_run, workers, mail, db, pool>>

\* e-mail page, the send button: the PDF is made from reports and sent
EmailPage ==
    /\ PageOpens("email")
    /\ session' = [session EXCEPT !.used = Some(PdfOf(reports[1].val).pdf_of)]
    /\ UNCHANGED <<pc, df, columns, group_type, group_column, index_df,
                   detected_company, grouped_data, warned, reports, clock,
                   ai_reply, first_run, workers, mail, db, pool>>

NextUpload ==
    \/ \E key \in Steps : SelectMenu(key)
    \/ \E table \in UploadTables : UploadFile(table)
    \/ ClearData
    \/ GenerateReports
    \/ ReportPage
    \/ MakePdf
    \/ DownloadExistingPdf
    \/ EmailPage

SpecUpload == InitUpload /\ [][NextUpload]_vars

----------------------------------------------------------------------------
(* AI interpretation and its cache *)

\* What call_gemini returns: the text of the answer, which may carry
\* markdown emphasis or be empty, or the "[AI] ..." text of a failed call
\* (no package, no key, no client, or an exception of the API).
AiTexts == {"analysis A", "**analysis B**", "[AI] call failed", ""}

\* the text is that of a failed call
FailedCall(text) == text = "[AI] call failed"

\* _clean_ai_text: code fences and emphasis marks are removed
_clean_ai_text(text) == CASE text = "**analysis B**" -> "analysis B"
                          [] OTHER                  -> text

\* generate_data_hash(report): the MD5 of org_name, respondents, summary,
\* open_ended and diagnostic
generate_data_hash(report) ==
    [org_name |-> report.org_name, respondents |-> report.respondents,
     summary |-> report.summary, open_ended |-> report.open_ended,
     diagnostic |-> report.categories]

\* ai_analysis_result of one run ("final" is the reviewer's text, or the
\* writer's when the reviewer gave none; the four other texts are made the
\* same way as "writer")
AiAnalysis(writer_result, reviewer_result) ==
    [writer |-> _clean_ai_text(writer_result),
     reviewer |-> _clean_ai_text(reviewer_result),
     final |-> _clean_ai_text(IF reviewer_result # "" THEN reviewer_result
                                                      ELSE writer_result)]

\* the first row of rows that satisfies Test, 0 when there is none
FirstRow(rows, Test(_)) ==
    IF \E i \in 1..Len(rows) : Test(rows[i])
    THEN CHOOSE i \in 1..Len(rows) : Test(rows[i]) /\ \A j \in 1..(i - 1) : ~Test(rows[j])
    ELSE 0

\* get_cached_ai_analysis(org_name, data_hash): the analysis of the first
\* completed Report of that team_name, when its data_hash is the same
CachedRow(d, org_name) ==
    FirstRow(d.reports, LAMBDA r : r.team_name = org_name /\ r.status = "completed")

CachedAt(d, k, data_hash) ==
    IF k = 0 THEN None
    ELSE IF d.reports[k].ai_analysis = None THEN None
    ELSE IF d.reports[k].ai_analysis[1].data_hash # data_hash THEN None
    ELSE d.reports[k].ai_analysis

get_cached_ai_analysis(d, org_name, data_hash) ==
    CachedAt(d, CachedRow(d, org_name), data_hash)

\* save_ai_analysis: "org = query(Organization).filter_by(name).first()",
\* created when there is none
WithOrganization(d, org_name) ==
    IF \E i \in 1..Len(d.organizations) : d.organizations[i] = org_name THEN d
    ELSE [d EXCEPT !.organizations = Append(@, org_name)]

\* "report = query(Report).filter_by(organization_id, team_name).first()",
\* created when there is none
WithReport(d, org_id, org_name) ==
    IF \E i \in 1..Len(d.reports) :
          d.reports[i].organization_id = org_id /\ d.reports[i].team_name = org_name
    THEN d
    ELSE [d EXCEPT !.reports = Append(@, [organization_id |-> org_id,
                                          team_name |-> org_name,
                                          status |-> "created",
                                          ai_analysis |-> None])]

\* the analysis with the metadata save_ai_analysis writes into it
Stamped(ai_result, org_name, data_hash) ==
    [writer |-> ai_result.writer, reviewer |-> ai_result.reviewer,
     final |-> ai_result.final, data_hash |-> data_hash,
     generated_at |-> clock, org_name |-> org_name]

\* report.ai_analysis = json.dumps(ai_result); report.status = 'completed'
StoreAt(d, k, stamped) ==
    [d EXCEPT !.reports[k].ai_analysis = Some(stamped),
              !.reports[k].status = "completed"]

SaveInto(d, org_id, org_name, stamped) ==
    StoreAt(d,
            FirstRow(d.reports, LAMBDA r : r.organization_id = org_id
                                           /\ r.team_name = org_name),
            stamped)

SaveForOrg(d, org_name, stamped) ==
    SaveInto(WithReport(d, FirstRow(d.organizations, LAMBDA n : n = org_name), org_name),
             FirstRow(d.organizations, LAMBDA n : n = org_name),
             org_name, stamped)

save_ai_analysis(d, org_name, stamped) ==
    SaveForOrg(WithOrganization(d, org_name), org_name, stamped)

\* run_ai_interpretation_gemini_from_report(report, force_regenerate) with
\* the texts the model returns when it is called: the dict returned,
\* whether the model was called, and the database after the call
AiOutcome(result, called, d) == [result |-> result, called |-> called, db |-> d]

GenerateAndSave(d, org_name, stamped) ==
    AiOutcome(stamped, TRUE, save_ai_analysis(d, org_name, stamped))

InterpretWith(d, org_name, data_hash, cached, force_regenerate, writer_result, reviewer_result) ==
    IF ~force_regenerate /\ cached # None
    THEN AiOutcome(cached[1], FALSE, d)
    ELSE GenerateAndSave(d, org_name,
                         Stamped(AiAnalysis(writer_result, reviewer_result),
                                 org_name, data_hash))

InterpretHashed(d, org_name, data_hash, force_regenerate, writer_result, reviewer_result) ==
    InterpretWith(d, org_name, data_hash,
                  get_cached_ai_analysis(d, org_name, data_hash),
                  force_regenerate, writer_result, reviewer_result)

run_ai_interpretation_gemini_from_report(d, report, force_regenerate, writer_result, reviewer_result) ==
    InterpretHashed(d, report.org_name, generate_data_hash(report),
                    force_regenerate, writer_result, reviewer_result)

\* _has_ai_result(ai): some text of the result is not empty
_has_ai_result(ai) == ai # None /\ (ai[1].writer # "" \/ ai[1].final # "")

\* what render_web_html is handed: "ai_raw if _has_ai_result(ai_raw) else
\* None"; cleaned_ai["writer"] is ai.writer or ai.final
ShownAi(ai) ==
    IF ~_has_ai_result(ai) THEN None
    ELSE IF ai[1].writer # "" THEN Some(ai[1].writer)
    ELSE Some(ai[1].final)

\* the end of every rerun of the report page: attach_score_distribution
\* and render_web_html on the selected report
Rendered(report, rows, ai) ==
    render_web_html(attach_score_distribution(report, rows, columns), ShownAi(ai))

InitAi ==
    /\ pc = "uploaded"
    /\ clock = Dates[1] /\ ai_reply = "no reply"
    /\ first_run = None /\ workers = <<>>
    /\ mail = None /\ pool = None
    /\ grouped_data = <<>> /\ warned = FALSE /\ reports = <<>>
    /\ df \in UploadTables
    /\ columns = {"DEPT", "Q1", "NO40"}
    /\ group_type = "whole" /\ group_column = None
    /\ index_df = OpenIndex
    /\ detected_company = None
    /\ db = [organizations |-> <<>>, reports |-> <<>>]
    /\ session = [ai_result |-> None, runs |-> 0, last |-> None]

\* report page without a button pressed
ViewReport ==
    /\ pc \in {"reported", "rendered"}
    /\ reports' = [reports EXCEPT ![1].val =
                      Rendered(@, grouped_data[1].val, session.ai_result)]
    /\ pc' = "rendered"
    /\ UNCHANGED <<df, columns, group_type, group_column, index_df,
                   detected_company, grouped_data, warned, clock, ai_reply,
                   first_run, workers, mail, session, db, pool>>

\* an interpretation of the report was generated and saved earlier
SavedBefore(d, org_name) ==
    \E i \in 1..Len(d.reports) :
        /\ d.reports[i].team_name = org_name
        /\ d.reports[i].status = "completed"
        /\ d.reports[i].ai_analysis # None

\* The report page with an AI button pressed, which takes a page rendered
\* before.  The "generate" button
\* (force_regenerate=False) is shown when get_cached_ai_analysis(
\* selected_team, data_hash) finds nothing, the "regenerate" button
\* (force_regenerate=True) when it finds something or the session holds a
\* result.  The result goes to session_state[ai_key] and the page is
\* rendered with it.
RequestAiWith(force_regenerate, shown_cached, out, saved_before) ==
    /\ IF force_regenerate
       THEN shown_cached # None \/ session.ai_result # None
       ELSE shown_cached = None
    /\ db' = out.db
    /\ session' = [ai_result |-> Some(out.result),
                   runs |-> session.runs + 1,
                   last |-> Some([force |-> force_regenerate,
                                  saved_before |-> saved_before,
                                  called |-> out.called,
                                  result |-> out.result])]
    /\ reports' = [reports EXCEPT ![1].val =
                      Rendered(@, grouped_data[1].val, Some(out.result))]

RequestAi(force_regenerate) ==
    /\ pc = "rendered"
    /\ session.runs < MaxAiRuns
    /\ \E writer_result \in AiTexts, reviewer_result \in {"", "analysis A"} :
          RequestAiWith(force_regenerate,
                        get_cached_ai_analysis(db, reports[1].name,
                                               generate_data_hash(reports[1].val)),
                        run_ai_interpretation_gemini_from_report(
                            db, reports[1].val, force_regenerate,
                            writer_result, reviewer_result),
                        SavedBefore(db, reports[1].val.org_name))
    /\ pc' = "rendered"
    /\ UNCHANGED <<df, columns, group_type, group_column, index_df,
                   detected_company, grouped_data, warned, clock, ai_reply,
                   first_run, workers, mail, pool>>

NextAi ==
    \/ GroupDataByUnit
    \/ BuildMultipleReports
    \/ ViewReport
    \/ \E force_regenerate \in BOOLEAN : RequestAi(force_regenerate)

SpecAi == InitAi /\ [][NextAi]_vars

----------------------------------------------------------------------------
(* Batch PDF generation: generate_multiple_pdfs, generate_multiple_pdfs_parallel *)

\* the reports handed to the generators, {team_name: report}
TeamNames == <<"A", "B", "C", "D", "E">>
ReportOf(team_name) == [organization_name |-> team_name]

\* What happens to one report: render_web_html raises, the conversion
\* (html_to_pdf_with_chrome, read_bytes) raises, or a PDF comes out.
PdfOutcomes == {"ok", "render fails", "convert fails"}

\* generate_multiple_pdfs: render_web_html is called before the try, the
\* conversion inside it ("except Exception: st.error(...); continue").
\* The call returns pdf_results or raises.
RECURSIVE generate_multiple_pdfs(_, _, _)
generate_multiple_pdfs(items, outcome, pdf_results) ==
    IF items = <<>> THEN [raised |-> FALSE, pdf_results |-> pdf_results]
    ELSE IF outcome[Head(items)] = "render fails"
    THEN [raised |-> TRUE, pdf_results |-> <<>>]
    ELSE IF outcome[Head(items)] = "convert fails"
    THEN generate_multiple_pdfs(Tail(items), outcome, pdf_results)
    ELSE generate_multiple_pdfs(Tail(items), outcome,
             (Head(items) :> PdfOf(ReportOf(Head(items)))) @@ pdf_results)

\* generate_single_pdf(team_data): everything is inside the try; the
\* tuple returned is (team_name, pdf_bytes, size) or (team_name, None,
\* error_msg)
generate_single_pdf(team_name, outcome) ==
    IF outcome = "ok"
    THEN [team_name |-> team_name, pdf_bytes |-> Some(PdfOf(ReportOf(team_name)))]
    ELSE [team_name |-> team_name, pdf_bytes |-> None]

\* total_batches = (len(report_items) + batch_size - 1) // batch_size
TotalBatches(n, batch_size) == (n + batch_size - 1) \div batch_size

Min(a, b) == IF a < b THEN a ELSE b

\* a batch that starts with the last item of the batch before it
BatchItems_overlapping(report_items, batch_idx, batch_size) ==
    SubSeq(report_items, IF batch_idx = 0 THEN 1 ELSE batch_idx * batch_size,
           Min(batch_idx * batch_size + batch_size, Len(report_items)))

\* batch_items = report_items[start_idx:end_idx]
BatchItems(report_items, batch_idx, batch_size) ==
    SubSeq(report_items, batch_idx * batch_size + 1,
           Min(batch_idx * batch_size + batch_size, Len(report_items)))

\* one call of generate_multiple_pdfs_parallel(reports, max_workers,
\* batch_size): the loop over the batches, the futures of the batch under
\* way, and what the loop over as_completed has collected
InitPdf ==
    /\ pc = "pdf"
    /\ df = <<>> /\ columns = {} /\ group_type = "whole" /\ group_column = None
    /\ index_df = <<>> /\ detected_company = None
    /\ grouped_data = <<>> /\ warned = FALSE /\ reports = <<>>
    /\ clock = Dates[1] /\ ai_reply = "no reply"
    /\ first_run = None /\ workers = <<>>
    /\ mail = None /\ session = None /\ db = None
    /\ \E n \in 0..MaxTeams, max_workers \in 1..MaxWorkers, batch_size \in 1..MaxBatchSize :
       \E outcome \in [{TeamNames[i] : i \in 1..n} -> PdfOutcomes] :
          pool = [report_items |-> SubSeq(TeamNames, 1, n), outcome |-> outcome,
                  max_workers |-> max_workers, batch_size |-> batch_size,
                  pc |-> "loop", batch_idx |-> 0, futures |-> <<>>,
                  pdf_results |-> <<>>, success_count |-> 0, error_count |-> 0,
                  handled |-> <<>>, overlapped |-> FALSE, sequential |-> None]

Running == {i \in DOMAIN pool.futures : pool.futures[i].state = "running"}

PdfUnchanged ==
    UNCHANGED <<pc, df, columns, group_type, group_column, index_df,
                detected_company, grouped_data, warned, reports, clock,
                ai_reply, first_run, workers, mail, session, db>>

\* "for batch_idx in range(total_batches)": the items of the batch are
\* submitted to a new ThreadPoolExecutor
SubmitBatch ==
    /\ pool.pc = "loop"
    /\ pool.batch_idx < TotalBatches(Len(pool.report_items), pool.batch_size)
    /\ LET batch_items == BatchItems(pool.report_items, pool.batch_idx, pool.batch_size)
       IN  pool' = [pool EXCEPT
               !.pc = "batch",
               !.futures = [i \in 1..Len(batch_items) |->
                               [team_name |-> batch_items[i], state |-> "pending",
                                result |-> None]]]
    /\ PdfUnchanged

\* a thread of the executor takes a submitted item
StartSinglePdf(i) ==
    /\ pool.pc = "batch"
    /\ pool.futures[i].state = "pending"
    /\ Cardinality(Running) < pool.max_workers
    /\ pool' = [pool EXCEPT !.futures[i].state = "running",
                            !.overlapped = @ \/ Running # {}]
    /\ PdfUnchanged

\* generate_single_pdf returns
FinishSinglePdf(i) ==
    /\ pool.pc = "batch"
    /\ pool.futures[i].state = "running"
    /\ pool' = [pool EXCEPT
           !.futures[i].state = "done",
           !.futures[i].result =
               Some(generate_single_pdf(pool.futures[i].team_name,
                                        pool.outcome[pool.futures[i].team_name]))]
    /\ PdfUnchanged

\* "for future in as_completed(future_to_team)": one finished future is
\* taken and its result counted
Counted(p, i, result) ==
    IF result.pdf_bytes # None
    THEN [p EXCEPT !.futures[i].state = "collected",
                   !.pdf_results = (result.team_name :> result.pdf_bytes[1]) @@ @,
                   !.success_count = @ + 1,
                   !.handled = Append(@, result.team_name)]
    ELSE [p EXCEPT !.futures[i].state = "collected",
                   !.error_count = @ + 1,
                   !.handled = Append(@, result.team_name)]

CollectResult(i) ==
    /\ pool.pc = "batch"
    /\ pool.futures[i].state = "done"
    /\ pool' = Counted(pool, i, pool.futures[i].result[1])
    /\ PdfUnchanged

\* the with block of the executor ends when every future was taken
EndBatch ==
    /\ pool.pc = "batch"
    /\ \A i \in DOMAIN pool.futures : pool.futures[i].state = "collected"
    /\ pool' = [pool EXCEPT !.pc = "loop", !.batch_idx = @ + 1, !.futures = <<>>]
    /\ PdfUnchanged

\* return pdf_results
ReturnPdfs ==
    /\ pool.pc = "loop"
    /\ pool.batch_idx = TotalBatches(Len(pool.report_items), pool.batch_size)
    /\ pool' = [pool EXCEPT !.pc = "returned"]
    /\ PdfUnchanged

\* generate_multiple_pdfs called on the same reports with the same
\* outcomes
RunSequential ==
    /\ pool.pc = "returned"
    /\ pool.sequential = None
    /\ pool' = [pool EXCEPT !.sequential =
                   Some(generate_multiple_pdfs(pool.report_items, pool.outcome, <<>>))]
    /\ PdfUnchanged

NextPdf ==
    \/ SubmitBatch
    \/ \E i \in DOMAIN pool.futures : StartSinglePdf(i)
    \/ \E i \in DOMAIN pool.futures : FinishSinglePdf(i)
    \/ \E i \in DOMAIN pool.futures : CollectResult(i)
    \/ EndBatch
    \/ ReturnPdfs
    \/ RunSequential

SpecPdf == InitPdf /\ [][NextPdf]_vars

----------------------------------------------------------------------------
(* Administrator mode of main() *)

\* ADMIN_PASSWORD = os.getenv("ADMIN_PASSWORD", "admin123")
ADMIN_PASSWORD == "admin123"

\* what is typed into the password field
Passwords == {ADMIN_PASSWORD, "admin", ""}

\* the administrator pages of the sidebar
AdminPages == {"admin_db", "admin_benchmark", "admin_branding", "admin_email"}

\* session_state as main() initialises it; history is the sequence of
\* login and logout buttons pressed, with the outcome of each login
InitAdmin ==
    /\ pc = "uploaded"
    /\ clock = Dates[1] /\ ai_reply = "no reply"
    /\ first_run = None /\ workers = <<>>
    /\ mail = None /\ db = None /\ pool = None
    /\ grouped_data = <<>> /\ warned = FALSE /\ reports = <<>>
    /\ df = <<>>
    /\ columns = {"DEPT", "Q1", "NO40"}
    /\ group_type = "whole" /\ group_column = None
    /\ index_df = OpenIndex
    /\ detected_company = None
    /\ session = [active_menu |-> "upload", uploaded |-> FALSE,
                  pdf_bytes |-> None, used |-> None,
                  admin_authenticated |-> FALSE, admin_mode |-> FALSE,
                  history |-> <<>>]

AdminUnchanged ==
    UNCHANGED <<pc, df, columns, group_type, group_column, index_df,
                detected_company, grouped_data, warned, reports, clock,
                ai_reply, first_run, workers, mail, db, pool>>

\* the login button with the right password
LoggedIn(s) ==
    [s EXCEPT !.admin_authenticated = TRUE, !.admin_mode = TRUE,
              !.active_menu = "admin_db", !.used = None,
              !.history = Append(@, "login")]

\* the login button with another password: st.error only
Rejected(s) == [s EXCEPT !.used = None, !.history = Append(@, "wrong password")]

\* a logout that only leaves the administrator page
LoggedOut_menu_only(s) ==
    [s EXCEPT !.active_menu = "upload", !.used = None,
              !.history = Append(@, "logout")]

\* the logout button
LoggedOut(s) ==
    [s EXCEPT !.admin_authenticated = FALSE, !.admin_mode = FALSE,
              !.active_menu = "upload", !.used = None,
              !.history = Append(@, "logout")]

\* sidebar, 'if not st.session_state["admin_authenticated"]': the login
\* form
Login(admin_password) ==
    /\ ~session.admin_authenticated
    /\ Len(session.history) < MaxAuthActions
    /\ session' = IF admin_password = ADMIN_PASSWORD THEN LoggedIn(session)
                                                     ELSE Rejected(session)
    /\ AdminUnchanged

\* sidebar, else branch: the logout button
Logout ==
    /\ session.admin_authenticated
    /\ Len(session.history) < MaxAuthActions
    /\ session' = LoggedOut(session)
    /\ AdminUnchanged

\* sidebar: the administrator items are shown, and can be pressed, when
\* admin_authenticated and admin_mode are set
SelectAdminMenu(key) ==
    /\ session.admin_authenticated /\ session.admin_mode
    /\ SelectMenu(key)

\* the page main() renders: an administrator page is rendered when
\* active_menu names it and admin_authenticated is set, else "return"
\* after st.error
AdminPageRendered ==
    /\ session.active_menu \in AdminPages
    /\ session.admin_authenticated

NextAdmin ==
    \/ \E key \in Steps : SelectMenu(key)
    \/ \E key \in AdminPages : SelectAdminMenu(key)
    \/ \E admin_password \in Passwords : Login(admin_password)
    \/ Logout

SpecAdmin == InitAdmin /\ [][NextAdmin]_vars

----------------------------------------------------------------------------
(* Database logging: logging_utils.py *)

\* teams whose PDF generation is logged, and the part of a log_id that the
\* completion calls take for the team: log_id.split("_")[1] of
\* "pdf_<team_name>_<date>_<time>"
LoggedTeams == {"A", "A_1"}
TeamOfLogId(log_id) == CASE log_id.team_name = "A_1" -> "A"
                         [] OTHER                   -> log_id.team_name

\* The log_id a start call returns.  The source builds it from the time of
\* the call to the second; stamp stands for that time and is taken to be
\* different for every call.
LogId(kind, team_name, stamp) == [kind |-> kind, team_name |-> team_name, stamp |-> stamp]

\* the tables: reports holds one Report per team; the rows of
\* pdf_generations and email_logs are in the order of their ids and of
\* created_at; call is the number of the start call that inserted the row
InitLog ==
    /\ pc = "log"
    /\ df = <<>> /\ columns = {} /\ group_type = "whole" /\ group_column = None
    /\ index_df = <<>> /\ detected_company = None
    /\ grouped_data = <<>> /\ warned = FALSE /\ reports = <<>>
    /\ clock = Dates[1] /\ ai_reply = "no reply"
    /\ first_run = None /\ workers = <<>>
    /\ mail = None /\ session = None /\ pool = None
    /\ db = [reports |-> <<[team_name |-> "A"], [team_name |-> "A_1"]>>,
             pdf_generations |-> <<>>, email_logs |-> <<>>,
             calls |-> <<>>, last |-> None]

LogUnchanged ==
    UNCHANGED <<pc, df, columns, group_type, group_column, index_df,
                detected_company, grouped_data, warned, reports, clock,
                ai_reply, first_run, workers, mail, session, pool>>

\* the start calls made so far whose send or generation is still under way
OpenCalls(kind) ==
    {n \in 1..Len(db.calls) : db.calls[n].open /\ db.calls[n].log_id.kind = kind}

\* the last row of rows that satisfies Test, 0 when there is none
LastRow(rows, Test(_)) ==
    IF \E i \in 1..Len(rows) : Test(rows[i])
    THEN CHOOSE i \in 1..Len(rows) : Test(rows[i]) /\ \A j \in (i + 1)..Len(rows) : ~Test(rows[j])
    ELSE 0

\* a start call returned: its log_id is with the caller
Started(d, log_id) == [d EXCEPT !.calls = Append(@, [log_id |-> log_id, open |-> TRUE]),
                                !.last = None]

\* a completion or error call for start call n returned, having updated
\* row k of its table (0: none)
Ended(d, n, k) == [d EXCEPT !.calls[n].open = FALSE,
                            !.last = Some([call |-> n, row |-> k])]

\* log_email_send_start: EmailLog(status="sending") is added
log_email_send_start(d) ==
    Started([d EXCEPT !.email_logs = Append(@, [status |-> "sending", sent_count |-> 0,
                                               failed_count |-> 0,
                                               call |-> Len(d.calls) + 1])],
            LogId("email", "", Len(d.calls) + 1))

\* query(EmailLog).filter(status == "sending").order_by(created_at.desc()).first()
LatestSending(d) == LastRow(d.email_logs, LAMBDA r : r.status = "sending")

\* email_log.status = "sent" if failed_count == 0 else "partial_failed"
CompletedStatus(failed_count) == IF failed_count = 0 THEN "sent" ELSE "partial_failed"

EmailCompletedAt(d, n, k, sent_count, failed_count) ==
    IF k = 0 THEN Ended(d, n, 0)
    ELSE Ended([d EXCEPT !.email_logs[k].status = CompletedStatus(failed_count),
                         !.email_logs[k].sent_count = sent_count,
                         !.email_logs[k].failed_count = failed_count],
               n, k)

\* log_email_send_complete(log_id, sent_count, failed_count), log_id being
\* that of start call n
log_email_send_complete(d, n, sent_count, failed_count) ==
    EmailCompletedAt(d, n, LatestSending(d), sent_count, failed_count)

EmailFailedAt(d, n, k) ==
    IF k = 0 THEN Ended(d, n, 0)
    ELSE Ended([d EXCEPT !.email_logs[k].status = "failed"], n, k)

\* log_email_send_error(log_id, error_message)
log_email_send_error(d, n) == EmailFailedAt(d, n, LatestSending(d))

\* log_pdf_generation_start(team_name, report_data): a PDFGeneration is
\* added when the Report of the team is found
PdfStartedFor(d, team_name, report_id) ==
    IF report_id = 0 THEN Started(d, LogId("pdf", team_name, Len(d.calls) + 1))
    ELSE Started([d EXCEPT !.pdf_generations =
                      Append(@, [report_id |-> report_id, status |-> "generating",
                                 call |-> Len(d.calls) + 1])],
                 LogId("pdf", team_name, Len(d.calls) + 1))

log_pdf_generation_start(d, team_name) ==
    PdfStartedFor(d, team_name, FirstRow(d.reports, LAMBDA r : r.team_name = team_name))

\* query(PDFGeneration).join(report).filter(status == "generating",
\* report.has(team_name=team_name)).first()
GeneratingOf(d, team_name) ==
    FirstRow(d.pdf_generations,
             LAMBDA r : r.status = "generating"
                        /\ d.reports[r.report_id].team_name = team_name)

PdfEndedAt(d, n, k, status) ==
    IF k = 0 THEN Ended(d, n, 0)
    ELSE Ended([d EXCEPT !.pdf_generations[k].status = status], n, k)

\* log_pdf_generation_complete(log_id, ...) and
\* log_pdf_generation_error(log_id, ...), log_id being that of start call n
log_pdf_generation_end(d, n, status) ==
    PdfEndedAt(d, n, GeneratingOf(d, TeamOfLogId(d.calls[n].log_id)), status)

EmailSendStart ==
    /\ Len(db.calls) < MaxLogCalls
    /\ db' = log_email_send_start(db)
    /\ LogUnchanged

EmailSendComplete(n) ==
    /\ n \in OpenCalls("email")
    /\ \E sent_count \in 0..1, failed_count \in 0..1 :
          db' = log_email_send_complete(db, n, sent_count, failed_count)
    /\ LogUnchanged

EmailSendError(n) ==
    /\ n \in OpenCalls("email")
    /\ db' = log_email_send_error(db, n)
    /\ LogUnchanged

PdfGenerationStart(team_name) ==
    /\ Len(db.calls) < MaxLogCalls
    /\ db' = log_pdf_generation_start(db, team_name)
    /\ LogUnchanged

PdfGenerationComplete(n) ==
    /\ n \in OpenCalls("pdf")
    /\ db' = log_pdf_generation_end(db, n, "completed")
    /\ LogUnchanged

PdfGenerationError(n) ==
    /\ n \in OpenCalls("pdf")
    /\ db' = log_pdf_generation_end(db, n, "failed")
    /\ LogUnchanged

\* send_email_with_attachment, after the retry loop: EmailLog(status='sent'
\* if len(sent_to) > 0 else 'failed') is added
SaveEmailLog(sent_count, failed_count) ==
    /\ Len(db.email_logs) < MaxLogCalls
    /\ db' = [db EXCEPT !.email_logs =
                 Append(@, [status |-> IF sent_count > 0 THEN "sent" ELSE "failed",
                            sent_count |-> sent_count, failed_count |-> failed_count,
                            call |-> 0]),
                        !.last = None]
    /\ LogUnchanged

NextLog ==
    \/ EmailSendStart
    \/ \E n \in 1..Len(db.calls) : EmailSendComplete(n)
    \/ \E n \in 1..Len(db.calls) : EmailSendError(n)
    \/ \E team_name \in LoggedTeams : PdfGenerationStart(team_name)
    \/ \E n \in 1..Len(db.calls) : PdfGenerationComplete(n)
    \/ \E n \in 1..Len(db.calls) : PdfGenerationError(n)
    \/ \E sent_count \in 0..1, failed_count \in 0..1 : SaveEmailLog(sent_count, failed_count)

SpecLog == InitLog /\ [][NextLog]_vars

----------------------------------------------------------------------------
(* Database cleaning: clean_old_data *)

\* Rows carry created_at as a day number; today is the day utcnow() gives.
\* foreign_keys tells whether the database enforces foreign keys: SQLite,
\* the default DATABASE_URL, does not unless asked to, other databases do.
InitClean ==
    /\ pc = "db"
    /\ df = <<>> /\ columns = {} /\ group_type = "whole" /\ group_column = None
    /\ index_df = <<>> /\ detected_company = None
    /\ grouped_data = <<>> /\ warned = FALSE /\ reports = <<>>
    /\ clock = Dates[1] /\ ai_reply = "no reply"
    /\ first_run = None /\ workers = <<>>
    /\ mail = None /\ session = None /\ pool = None
    /\ \E foreign_keys \in BOOLEAN :
          db = [reports |-> <<>>, pdf_generations |-> <<>>, email_logs |-> <<>>,
                next_id |-> 1, today |-> 0, foreign_keys |-> foreign_keys,
                cleaned |-> FALSE]

CleanUnchanged ==
    UNCHANGED <<pc, df, columns, group_type, group_column, index_df,
                detected_company, grouped_data, warned, reports, clock,
                ai_reply, first_run, workers, mail, session, pool>>

\* a day passes
NextDay ==
    /\ db.today < MaxDay
    /\ db' = [db EXCEPT !.today = @ + 1]
    /\ CleanUnchanged

\* save_ai_analysis: session.add(Report(...)) for a team without one
AddReport ==
    /\ Len(db.reports) < MaxDbRows
    /\ db.next_id <= MaxDbRows + 1
    /\ db' = [db EXCEPT !.reports = Append(@, [id |-> db.next_id, created_at |-> db.today]),
                        !.next_id = @ + 1]
    /\ CleanUnchanged

\* log_pdf_generation_start: PDFGeneration(report_id=report.id, ...) for a
\* Report that was found
AddPdfGeneration(k) ==
    /\ Len(db.pdf_generations) < MaxDbRows
    /\ db' = [db EXCEPT !.pdf_generations =
                 Append(@, [report_id |-> Some(db.reports[k].id), created_at |-> db.today])]
    /\ CleanUnchanged

\* log_email_send_start, send_email_with_attachment: EmailLog(...) without
\* a report_id
AddEmailLog ==
    /\ Len(db.email_logs) < MaxDbRows
    /\ db' = [db EXCEPT !.email_logs =
                 Append(@, [report_id |-> None, created_at |-> db.today])]
    /\ CleanUnchanged

\* query.filter(created_at < cutoff_date).delete(): the rows that stay
Kept(rows, cutoff_date) == SelectSeq(rows, LAMBDA r : ~(r.created_at < cutoff_date))

\* a row refers to a report that is not in the table
Dangling(rows, report_rows) ==
    \E i \in 1..Len(rows) :
        /\ rows[i].report_id # None
        /\ \A j \in 1..Len(report_rows) : report_rows[j].id # rows[i].report_id[1]

\* the three deletes and the commit.  Where foreign keys are enforced, the
\* delete of a Report that a remaining row refers to raises, the handler
\* returns the zero counts and nothing is committed.
Deleted(d, kept_reports, kept_pdfs, kept_emails) ==
    IF d.foreign_keys /\ (Dangling(kept_pdfs, kept_reports) \/ Dangling(kept_emails, kept_reports))
    THEN [d EXCEPT !.cleaned = TRUE]
    ELSE [d EXCEPT !.reports = kept_reports, !.pdf_generations = kept_pdfs,
                   !.email_logs = kept_emails, !.cleaned = TRUE]

\* clean_old_data(days): cutoff_date = utcnow() - timedelta(days=days)
clean_old_data(d, days) ==
    Deleted(d, Kept(d.reports, d.today - days),
               Kept(d.pdf_generations, d.today - days),
               Kept(d.email_logs, d.today - days))

CleanOldData(days) ==
    /\ db' = clean_old_data(db, days)
    /\ CleanUnchanged

NextClean ==
    \/ NextDay
    \/ AddReport
    \/ \E k \in 1..Len(db.reports) : AddPdfGeneration(k)
    \/ AddEmailLog
    \/ \E days \in 0..MaxDay : CleanOldData(days)

SpecClean == InitClean /\ [][NextClean]_vars

----------------------------------------------------------------------------
(* Runs of the pipeline and rendering: properties *)

\* C11 (as stated): running the pipeline twice on the same table and the
\* same item index gives identical reports: no field depends on the time of
\* the run or on other hidden nondeterminism.
C11_AsStated ==
    (pc = "reported" /\ first_run # None) => reports = first_run[1]

\* C12 (as stated): a report is not modified after the report assembler
\* produced it: rendering leaves every field of it unchanged.
C12_AsStated == [][pc' = "rendered" => reports' = reports]_vars

----------------------------------------------------------------------------
(* Concurrent builds: properties *)

----------------------------------------------------------------------------
(* E-mail: properties *)

Mailed == pc = "mailed" /\ mail.credentials /\ mail.attachment
Result == mail.result[1]
Script == mail.script[1]

\* C18 (as stated): success is True exactly when a message was delivered to
\* at least one recipient, and sent_to lists exactly the recipients whose
\* delivery succeeded.
C18_AsStated ==
    Mailed =>
        /\ Result.success = (Result.delivered # <<>>)
        /\ Result.sent_to = Result.delivered

\* every attempt of the call fails to connect
NeverConnects ==
    /\ mail.max_retries >= 1
    /\ \A k \in 1..mail.max_retries : ~Script[k].connect

\* C19 (as stated): if the SMTP connection cannot be established on any
\* attempt, the call does not raise and returns success False with a
\* message that holds the word "error".
C19_AsStated ==
    (Mailed /\ NeverConnects) =>
        /\ ~Result.raised
        /\ ~Result.success
        /\ MessageSaysError(Result.message)

\* attempt k is the first whose login raises SMTPAuthenticationError, and
\* the call gets there
AuthFailsAt(k) ==
    /\ k \in 1..mail.max_retries
    /\ Script[k].connect /\ Script[k].login = "auth"
    /\ \A j \in 1..(k - 1) : ~Script[j].connect \/ Script[j].login = "error"

\* C20 (as stated): an authentication failure at login ends the call at
\* once: success False, an empty sent_to, and no later connection attempt.
C20_AsStated ==
    Mailed =>
        \A k \in 1..mail.max_retries :
            AuthFailsAt(k) =>
                /\ ~Result.success
                /\ Result.sent_to = <<>>
                /\ Result.attempts = k

\* no address occurs twice in the sequence
NoDuplicates(seq) == \A i, j \in 1..Len(seq) : seq[i] = seq[j] => i = j

\* C21 (as stated): within one call of send_email_with_attachment or
\* send_gmail_with_attachment each recipient is sent the message at most
\* once, whichever connection, login, send or quit steps fail and are
\* retried.
C21_AsStated ==
    /\ Mailed => NoDuplicates(Result.delivered)
    /\ pc = "gmailed" => mail.gmail[1].delivered <= 1

----------------------------------------------------------------------------
(* The pages of main(): properties *)

\* the report as build_report gave it, before render_web_html filled in
\* summary.ai
Unrendered(report) == [report EXCEPT !.summary.ai = None]

\* the report of the table that is loaded now
CurrentReport ==
    ReportsOf(df, group_data_by_unit(df, columns, group_type, group_column))[1].val

\* C22 (as stated): after the uploaded data is replaced or cleared, the
\* report, PDF and e-mail pages never use a report or a PDF built from the
\* previous data: what they use is the report of the table loaded now.
C22_AsStated ==
    session.used # None => Unrendered(session.used[1]) = CurrentReport

----------------------------------------------------------------------------
(* AI interpretation and its cache: properties *)

LastRequest == session.last[1]

\* C23 (as stated): once an interpretation of a report has been generated
\* and saved, a later request without force_regenerate for the same report
\* with unchanged survey data returns a saved interpretation without
\* calling the model again, also after the report was rendered in between.
C23_AsStated ==
    (session.last # None /\ ~LastRequest.force /\ LastRequest.saved_before)
        => ~LastRequest.called

\* C24 (as stated): an interpretation is stored as a completed analysis
\* only if the model calls that produced it succeeded: the text of a failed
\* call is never returned later as a cached result.
C24_AsStated ==
    (session.last # None /\ ~LastRequest.called)
        => /\ ~FailedCall(LastRequest.result.writer)
           /\ ~FailedCall(LastRequest.result.final)

----------------------------------------------------------------------------
(* Batch PDF generation: properties *)

PdfReturned == pool.pc = "returned"

Teams == {pool.report_items[i] : i \in 1..Len(pool.report_items)}

\* the number of results the loop over as_completed handled for the team
TimesHandled(team_name) ==
    Cardinality({i \in 1..Len(pool.handled) : pool.handled[i] = team_name})

\* C25: for any worker count and batch size of at least 1,
\* generate_multiple_pdfs_parallel handles every report exactly once: every
\* report ends as one success or one failure, success_count + error_count
\* is the number of reports, and the result holds a PDF for exactly the
\* reports that succeeded.
C25_EveryReportOnce ==
    PdfReturned =>
        /\ \A team_name \in Teams : TimesHandled(team_name) = 1
        /\ Len(pool.handled) = Len(pool.report_items)
        /\ pool.success_count + pool.error_count = Len(pool.report_items)
        /\ DOMAIN pool.pdf_results = {t \in Teams : pool.outcome[t] = "ok"}
        /\ pool.success_count = Cardinality(DOMAIN pool.pdf_results)
        /\ \A t \in DOMAIN pool.pdf_results : pool.pdf_results[t] = PdfOf(ReportOf(t))

\* three reports in two batches, two of them generated at the same time,
\* one PDF and two failures
C25_Witness ==
    /\ PdfReturned
    /\ Len(pool.report_items) = 3 /\ pool.batch_size = 2 /\ pool.max_workers = 2
    /\ pool.overlapped
    /\ pool.success_count = 1 /\ pool.error_count = 2
    /\ pool.handled[1] = "B"

\* C26 (as stated): for the same reports and the same outcome of rendering
\* and conversion of every report, generate_multiple_pdfs and
\* generate_multiple_pdfs_parallel return the same mapping from team to
\* PDF: a report that fails is left out, every other report is produced.
C26_AsStated ==
    (PdfReturned /\ pool.sequential # None) =>
        /\ ~pool.sequential[1].raised
        /\ pool.sequential[1].pdf_results = pool.pdf_results

----------------------------------------------------------------------------
(* Administrator mode: properties *)

\* C27: after any sequence of logins, logouts and menu selections an
\* administrator page is rendered only in a session whose most recent
\* login or logout action was a login with the configured password.
C27_AdminOnlyAfterLogin ==
    AdminPageRendered =>
        /\ session.history # <<>>
        /\ session.history[Len(session.history)] = "login"

\* an administrator page other than the first, in a session that was
\* logged out once and had a wrong password typed before the second login
C27_Witness ==
    /\ AdminPageRendered
    /\ session.active_menu = "admin_email"
    /\ session.history = <<"login", "logout", "wrong password", "login">>

----------------------------------------------------------------------------
(* Database logging: properties *)

\* the table a call of the kind writes to
TableOf(kind) == IF kind = "email" THEN db.email_logs ELSE db.pdf_generations

\* C28 (as stated): a completion or error call made with a log_id updates
\* the record opened by the start call that returned that log_id and no
\* other record, also when several sends or generations are under way.
C28_AsStated ==
    (db.last # None /\ db.last[1].row # 0) =>
        TableOf(db.calls[db.last[1].call].log_id.kind)[db.last[1].row].call = db.last[1].call

\* C29 (as stated): the status of every EmailLog row is at all times one
\* of "sending", "sent" and "failed".
C29_AsStated ==
    \A i \in 1..Len(db.email_logs) :
        db.email_logs[i].status \in {"sending", "sent", "failed"}

----------------------------------------------------------------------------
(* Database cleaning: properties *)

\* C30 (as stated): after clean_old_data(days) has run, every remaining
\* PDFGeneration and EmailLog row that refers to a report refers to an
\* existing Report.
C30_AsStated ==
    db.cleaned =>
        /\ ~Dangling(db.pdf_generations, db.reports)
        /\ ~Dangling(db.email_logs, db.reports)

====
